---- MODULE Spec2Model ----
(***************************************************************************)
(* The SARIF document model of sarif.go and its JSON codec: one struct     *)
(* type per entity, and a MarshalJSON / UnmarshalJSON pair per struct.     *)
(* The 53 codec pairs are instances of one template, so the model holds    *)
(* one field table per struct and one operator per template; the calls     *)
(* into encoding/json (json.Marshal, json.Unmarshal) are modelled by what  *)
(* they do for the Go types the structs use.                               *)
(***************************************************************************)
EXTENDS Integers, Sequences, FiniteSets, TLC

(***************************************************************************)
(* JSON text.  A value is a tagged record; the member list of an object is *)
(* a sequence of <<key text, value>> pairs in the order written, so that   *)
(* repeated keys and key order are part of the text.  A string carries the *)
(* text between its quotes, escapes included.                              *)
(***************************************************************************)
JNull == [kind |-> "null", val |-> 0]

JNum(n) == [kind |-> "num", val |-> n]

JStr(t) == [kind |-> "str", val |-> t]

JBool(b) == [kind |-> "bool", val |-> b]

JArr(s) == [kind |-> "arr", val |-> s]

JObj(m) == [kind |-> "obj", val |-> m]

\* the nil byte slice a failed MarshalJSON returns
NoBytes == [kind |-> "none", val |-> 0]

(***************************************************************************)
(* Go values.  A non-nil pointer to a struct is the struct itself (every   *)
(* nested instance has one owner): kind is the struct's type name and val  *)
(* maps Go field names to values.                                          *)
(***************************************************************************)
GNil == [kind |-> "nil", val |-> 0]

GInt(n) == [kind |-> "int", val |-> n]

GFloat(n) == [kind |-> "float64", val |-> n]

GStr(s) == [kind |-> "string", val |-> s]

GBool(b) == [kind |-> "bool", val |-> b]

GSlice(s) == [kind |-> "slice", val |-> s]

GMap(m) == [kind |-> "map", val |-> m]

GStruct(T, fields) == [kind |-> T, val |-> fields]

\* the empty Go map
EmptyMap == [k \in {} |-> GNil]

(***************************************************************************)
(* Errors.  kind "missing" is the required-field error of decode and of    *)
(* encode, "unrecognized" the additional-property error, "malformed" a     *)
(* json.UnmarshalTypeError, "syntax" a json.SyntaxError; name is the wire  *)
(* key the message carries; wraps counts the json.MarshalerError wrappers  *)
(* json.Marshal has put around the error.                                  *)
(***************************************************************************)
NoErr == [kind |-> "none", name |-> "", wraps |-> 0]

Err(kind, name) == [kind |-> kind, name |-> name, wraps |-> 0]

MarshalerError(e) == [e EXCEPT !.wraps = @ + 1]

F(key, name, type, elem, required) ==
  [key |-> key, name |-> name, type |-> type, elem |-> elem, required |-> required]

\* type Address struct: wire key, Go field, Go type, nested entity, required
Address ==
  <<
    F("absoluteAddress", "AbsoluteAddress", "int", "", FALSE),
    F("fullyQualifiedName", "FullyQualifiedName", "string", "", FALSE),
    F("index", "Index", "int", "", FALSE),
    F("kind", "Kind", "string", "", FALSE),
    F("length", "Length", "int", "", FALSE),
    F("name", "Name", "string", "", FALSE),
    F("offsetFromParent", "OffsetFromParent", "int", "", FALSE),
    F("parentIndex", "ParentIndex", "int", "", FALSE),
    F("properties", "Properties", "ptr", "PropertyBag", FALSE),
    F("relativeAddress", "RelativeAddress", "int", "", FALSE)
  >>

\* type Artifact struct: wire key, Go field, Go type, nested entity, required
Artifact ==
  <<
    F("contents", "Contents", "ptr", "ArtifactContent", FALSE),
    F("description", "Description", "ptr", "Message", FALSE),
    F("encoding", "Encoding", "string", "", FALSE),
    F("hashes", "Hashes", "strmap", "", FALSE),
    F("lastModifiedTimeUtc", "LastModifiedTimeUtc", "string", "", FALSE),
    F("length", "Length", "int", "", FALSE),
    F("location", "Location", "ptr", "ArtifactLocation", FALSE),
    F("mimeType", "MimeType", "string", "", FALSE),
    F("offset", "Offset", "int", "", FALSE),
    F("parentIndex", "ParentIndex", "int", "", FALSE),
    F("properties", "Properties", "ptr", "PropertyBag", FALSE),
    F("roles", "Roles", "strslice", "", FALSE),
    F("sourceLanguage", "SourceLanguage", "string", "", FALSE)
  >>

\* type ArtifactChange struct: wire key, Go field, Go type, nested entity, required
ArtifactChange ==
  <<
    F("artifactLocation", "ArtifactLocation", "ptr", "ArtifactLocation", TRUE),
    F("properties", "Properties", "ptr", "PropertyBag", FALSE),
    F("replacements", "Replacements", "ptrslice", "Replacement", TRUE)
  >>

\* type ArtifactContent struct: wire key, Go field, Go type, nested entity, required
ArtifactContent ==
  <<
    F("binary", "Binary", "string", "", FALSE),
    F("properties", "Properties", "ptr", "PropertyBag", FALSE),
    F("rendered", "Rendered", "ptr", "MultiformatMessageString", FALSE),
    F("text", "Text", "string", "", FALSE)
  >>

\* type ArtifactLocation struct: wire key, Go field, Go type, nested entity, required
ArtifactLocation ==
  <<
    F("description", "Description", "ptr", "Message", FALSE),
    F("index", "Index", "int", "", FALSE),
    F("properties", "Properties", "ptr", "PropertyBag", FALSE),
    F("uri", "Uri", "string", "", FALSE),
    F("uriBaseId", "UriBaseId", "string", "", FALSE)
  >>

\* type Attachment struct: wire key, Go field, Go type, nested entity, required
Attachment ==
  <<
    F("artifactLocation", "ArtifactLocation", "ptr", "ArtifactLocation", TRUE),
    F("description", "Description", "ptr", "Message", FALSE),
    F("properties", "Properties", "ptr", "PropertyBag", FALSE),
    F("rectangles", "Rectangles", "ptrslice", "Rectangle", FALSE),
    F("regions", "Regions", "ptrslice", "Region", FALSE)
  >>

\* type CodeFlow struct: wire key, Go field, Go type, nested entity, required
CodeFlow ==
  <<
    F("message", "Message", "ptr", "Message", FALSE),
    F("properties", "Properties", "ptr", "PropertyBag", FALSE),
    F("threadFlows", "ThreadFlows", "ptrslice", "ThreadFlow", TRUE)
  >>

\* type ConfigurationOverride struct: wire key, Go field, Go type, nested entity, required
ConfigurationOverride ==
  <<
    F("configuration", "Configuration", "ptr", "ReportingConfiguration", TRUE),
    F("descriptor", "Descriptor", "ptr", "ReportingDescriptorReference", TRUE),
    F("properties", "Properties", "ptr", "PropertyBag", FALSE)
  >>

\* type Conversion struct: wire key, Go field, Go type, nested entity, required
Conversion ==
  <<
    F("analysisToolLogFiles", "AnalysisToolLogFiles", "ptrslice", "ArtifactLocation", FALSE),
    F("invocation", "Invocation", "ptr", "Invocation", FALSE),
    F("properties", "Properties", "ptr", "PropertyBag", FALSE),
    F("tool", "Tool", "ptr", "Tool", TRUE)
  >>

\* type Edge struct: wire key, Go field, Go type, nested entity, required
Edge ==
  <<
    F("id", "Id", "string", "", TRUE),
    F("label", "Label", "ptr", "Message", FALSE),
    F("properties", "Properties", "ptr", "PropertyBag", FALSE),
    F("sourceNodeId", "SourceNodeId", "string", "", TRUE),
    F("targetNodeId", "TargetNodeId", "string", "", TRUE)
  >>

\* type EdgeTraversal struct: wire key, Go field, Go type, nested entity, required
EdgeTraversal ==
  <<
    F("edgeId", "EdgeId", "string", "", TRUE),
    F("finalState", "FinalState", "ptrmap", "MultiformatMessageString", FALSE),
    F("message", "Message", "ptr", "Message", FALSE),
    F("properties", "Properties", "ptr", "PropertyBag", FALSE),
    F("stepOverEdgeCount", "StepOverEdgeCount", "int", "", FALSE)
  >>

\* type Exception struct: wire key, Go field, Go type, nested entity, required
Exception ==
  <<
    F("innerExceptions", "InnerExceptions", "ptrslice", "Exception", FALSE),
    F("kind", "Kind", "string", "", FALSE),
    F("message", "Message", "string", "", FALSE),
    F("properties", "Properties", "ptr", "PropertyBag", FALSE),
    F("stack", "Stack", "ptr", "Stack", FALSE)
  >>

\* type ExternalProperties struct: wire key, Go field, Go type, nested entity, required
ExternalProperties ==
  <<
    F("addresses", "Addresses", "ptrslice", "Address", FALSE),
    F("artifacts", "Artifacts", "ptrslice", "Artifact", FALSE),
    F("conversion", "Conversion", "ptr", "Conversion", FALSE),
    F("driver", "Driver", "ptr", "ToolComponent", FALSE),
    F("extensions", "Extensions", "ptrslice", "ToolComponent", FALSE),
    F("externalizedProperties", "ExternalizedProperties", "ptr", "PropertyBag", FALSE),
    F("graphs", "Graphs", "ptrslice", "Graph", FALSE),
    F("guid", "Guid", "string", "", FALSE),
    F("invocations", "Invocations", "ptrslice", "Invocation", FALSE),
    F("logicalLocations", "LogicalLocations", "ptrslice", "LogicalLocation", FALSE),
    F("policies", "Policies", "ptrslice", "ToolComponent", FALSE),
    F("properties", "Properties", "ptr", "PropertyBag", FALSE),
    F("results", "Results", "ptrslice", "Result", FALSE),
    F("runGuid", "RunGuid", "string", "", FALSE),
    F("schema", "Schema", "string", "", FALSE),
    F("taxonomies", "Taxonomies", "ptrslice", "ToolComponent", FALSE),
    F("threadFlowLocations", "ThreadFlowLocations", "ptrslice", "ThreadFlowLocation", FALSE),
    F("translations", "Translations", "ptrslice", "ToolComponent", FALSE),
    F("version", "Version", "string", "", FALSE),
    F("webRequests", "WebRequests", "ptrslice", "WebRequest", FALSE),
    F("webResponses", "WebResponses", "ptrslice", "WebResponse", FALSE)
  >>

\* type ExternalPropertyFileReference struct: wire key, Go field, Go type, nested entity, required
ExternalPropertyFileReference ==
  <<
    F("guid", "Guid", "string", "", FALSE),
    F("itemCount", "ItemCount", "int", "", FALSE),
    F("location", "Location", "ptr", "ArtifactLocation", FALSE),
    F("properties", "Properties", "ptr", "PropertyBag", FALSE)
  >>

\* type ExternalPropertyFileReferences struct: wire key, Go field, Go type, nested entity, required
ExternalPropertyFileReferences ==
  <<
    F("addresses", "Addresses", "ptrslice", "ExternalPropertyFileReference", FALSE),
    F("artifacts", "Artifacts", "ptrslice", "ExternalPropertyFileReference", FALSE),
    F("conversion", "Conversion", "ptr", "ExternalPropertyFileReference", FALSE),
    F("driver", "Driver", "ptr", "ExternalPropertyFileReference", FALSE),
    F("extensions", "Extensions", "ptrslice", "ExternalPropertyFileReference", FALSE),
    F("externalizedProperties", "ExternalizedProperties", "ptr", "ExternalPropertyFileReference", FALSE),
    F("graphs", "Graphs", "ptrslice", "ExternalPropertyFileReference", FALSE),
    F("invocations", "Invocations", "ptrslice", "ExternalPropertyFileReference", FALSE),
    F("logicalLocations", "LogicalLocations", "ptrslice", "ExternalPropertyFileReference", FALSE),
    F("policies", "Policies", "ptrslice", "ExternalPropertyFileReference", FALSE),
    F("properties", "Properties", "ptr", "PropertyBag", FALSE),
    F("results", "Results", "ptrslice", "ExternalPropertyFileReference", FALSE),
    F("taxonomies", "Taxonomies", "ptrslice", "ExternalPropertyFileReference", FALSE),
    F("threadFlowLocations", "ThreadFlowLocations", "ptrslice", "ExternalPropertyFileReference", FALSE),
    F("translations", "Translations", "ptrslice", "ExternalPropertyFileReference", FALSE),
    F("webRequests", "WebRequests", "ptrslice", "ExternalPropertyFileReference", FALSE),
    F("webResponses", "WebResponses", "ptrslice", "ExternalPropertyFileReference", FALSE)
  >>

\* type Fix struct: wire key, Go field, Go type, nested entity, required
Fix ==
  <<
    F("artifactChanges", "ArtifactChanges", "ptrslice", "ArtifactChange", TRUE),
    F("description", "Description", "ptr", "Message", FALSE),
    F("properties", "Properties", "ptr", "PropertyBag", FALSE)
  >>

\* type Graph struct: wire key, Go field, Go type, nested entity, required
Graph ==
  <<
    F("description", "Description", "ptr", "Message", FALSE),
    F("edges", "Edges", "ptrslice", "Edge", FALSE),
    F("nodes", "Nodes", "ptrslice", "Node", FALSE),
    F("properties", "Properties", "ptr", "PropertyBag", FALSE)
  >>

\* type GraphTraversal struct: wire key, Go field, Go type, nested entity, required
GraphTraversal ==
  <<
    F("description", "Description", "ptr", "Message", FALSE),
    F("edgeTraversals", "EdgeTraversals", "ptrslice", "EdgeTraversal", FALSE),
    F("immutableState", "ImmutableState", "ptrmap", "MultiformatMessageString", FALSE),
    F("initialState", "InitialState", "ptrmap", "MultiformatMessageString", FALSE),
    F("properties", "Properties", "ptr", "PropertyBag", FALSE),
    F("resultGraphIndex", "ResultGraphIndex", "int", "", FALSE),
    F("runGraphIndex", "RunGraphIndex", "int", "", FALSE)
  >>

\* type Invocation struct: wire key, Go field, Go type, nested entity, required
Invocation ==
  <<
    F("account", "Account", "string", "", FALSE),
    F("arguments", "Arguments", "strslice", "", FALSE),
    F("commandLine", "CommandLine", "string", "", FALSE),
    F("endTimeUtc", "EndTimeUtc", "string", "", FALSE),
    F("environmentVariables", "EnvironmentVariables", "strmap", "", FALSE),
    F("executableLocation", "ExecutableLocation", "ptr", "ArtifactLocation", FALSE),
    F("executionSuccessful", "ExecutionSuccessful", "bool", "", TRUE),
    F("exitCode", "ExitCode", "int", "", FALSE),
    F("exitCodeDescription", "ExitCodeDescription", "string", "", FALSE),
    F("exitSignalName", "ExitSignalName", "string", "", FALSE),
    F("exitSignalNumber", "ExitSignalNumber", "int", "", FALSE),
    F("machine", "Machine", "string", "", FALSE),
    F("notificationConfigurationOverrides", "NotificationConfigurationOverrides", "ptrslice", "ConfigurationOverride", FALSE),
    F("processId", "ProcessId", "int", "", FALSE),
    F("processStartFailureMessage", "ProcessStartFailureMessage", "string", "", FALSE),
    F("properties", "Properties", "ptr", "PropertyBag", FALSE),
    F("responseFiles", "ResponseFiles", "ptrslice", "ArtifactLocation", FALSE),
    F("ruleConfigurationOverrides", "RuleConfigurationOverrides", "ptrslice", "ConfigurationOverride", FALSE),
    F("startTimeUtc", "StartTimeUtc", "string", "", FALSE),
    F("stderr", "Stderr", "ptr", "ArtifactLocation", FALSE),
    F("stdin", "Stdin", "ptr", "ArtifactLocation", FALSE),
    F("stdout", "Stdout", "ptr", "ArtifactLocation", FALSE),
    F("stdoutStderr", "StdoutStderr", "ptr", "ArtifactLocation", FALSE),
    F("toolConfigurationNotifications", "ToolConfigurationNotifications", "ptrslice", "Notification", FALSE),
    F("toolExecutionNotifications", "ToolExecutionNotifications", "ptrslice", "Notification", FALSE),
    F("workingDirectory", "WorkingDirectory", "ptr", "ArtifactLocation", FALSE)
  >>

\* type Location struct: wire key, Go field, Go type, nested entity, required
Location ==
  <<
    F("annotations", "Annotations", "ptrslice", "Region", FALSE),
    F("id", "Id", "int", "", FALSE),
    F("logicalLocations", "LogicalLocations", "ptrslice", "LogicalLocation", FALSE),
    F("message", "Message", "ptr", "Message", FALSE),
    F("physicalLocation", "PhysicalLocation", "ptr", "PhysicalLocation", FALSE),
    F("properties", "Properties", "ptr", "PropertyBag", FALSE),
    F("relationships", "Relationships", "ptrslice", "LocationRelationship", FALSE)
  >>

\* type LocationRelationship struct: wire key, Go field, Go type, nested entity, required
LocationRelationship ==
  <<
    F("description", "Description", "ptr", "Message", FALSE),
    F("kinds", "Kinds", "strslice", "", FALSE),
    F("properties", "Properties", "ptr", "PropertyBag", FALSE),
    F("target", "Target", "int", "", TRUE)
  >>

\* type LogicalLocation struct: wire key, Go field, Go type, nested entity, required
LogicalLocation ==
  <<
    F("decoratedName", "DecoratedName", "string", "", FALSE),
    F("fullyQualifiedName", "FullyQualifiedName", "string", "", FALSE),
    F("index", "Index", "int", "", FALSE),
    F("kind", "Kind", "string", "", FALSE),
    F("name", "Name", "string", "", FALSE),
    F("parentIndex", "ParentIndex", "int", "", FALSE),
    F("properties", "Properties", "ptr", "PropertyBag", FALSE)
  >>

\* type Message struct: wire key, Go field, Go type, nested entity, required
Message ==
  <<
    F("arguments", "Arguments", "strslice", "", FALSE),
    F("id", "Id", "string", "", FALSE),
    F("markdown", "Markdown", "string", "", FALSE),
    F("properties", "Properties", "ptr", "PropertyBag", FALSE),
    F("text", "Text", "string", "", FALSE)
  >>

\* type MultiformatMessageString struct: wire key, Go field, Go type, nested entity, required
MultiformatMessageString ==
  <<
    F("markdown", "Markdown", "string", "", FALSE),
    F("properties", "Properties", "ptr", "PropertyBag", FALSE),
    F("text", "Text", "string", "", TRUE)
  >>

\* type Node struct: wire key, Go field, Go type, nested entity, required
Node ==
  <<
    F("children", "Children", "ptrslice", "Node", FALSE),
    F("id", "Id", "string", "", TRUE),
    F("label", "Label", "ptr", "Message", FALSE),
    F("location", "Location", "ptr", "Location", FALSE),
    F("properties", "Properties", "ptr", "PropertyBag", FALSE)
  >>

\* type Notification struct: wire key, Go field, Go type, nested entity, required
Notification ==
  <<
    F("associatedRule", "AssociatedRule", "ptr", "ReportingDescriptorReference", FALSE),
    F("descriptor", "Descriptor", "ptr", "ReportingDescriptorReference", FALSE),
    F("exception", "Exception", "ptr", "Exception", FALSE),
    F("level", "Level", "string", "", FALSE),
    F("locations", "Locations", "ptrslice", "Location", FALSE),
    F("message", "Message", "ptr", "Message", TRUE),
    F("properties", "Properties", "ptr", "PropertyBag", FALSE),
    F("threadId", "ThreadId", "int", "", FALSE),
    F("timeUtc", "TimeUtc", "string", "", FALSE)
  >>

\* type PhysicalLocation struct: wire key, Go field, Go type, nested entity, required
PhysicalLocation ==
  <<
    F("address", "Address", "ptr", "Address", FALSE),
    F("artifactLocation", "ArtifactLocation", "ptr", "ArtifactLocation", FALSE),
    F("contextRegion", "ContextRegion", "ptr", "Region", FALSE),
    F("properties", "Properties", "ptr", "PropertyBag", FALSE),
    F("region", "Region", "ptr", "Region", FALSE)
  >>

\* type Rectangle struct: wire key, Go field, Go type, nested entity, required
Rectangle ==
  <<
    F("bottom", "Bottom", "float64", "", FALSE),
    F("left", "Left", "float64", "", FALSE),
    F("message", "Message", "ptr", "Message", FALSE),
    F("properties", "Properties", "ptr", "PropertyBag", FALSE),
    F("right", "Right", "float64", "", FALSE),
    F("top", "Top", "float64", "", FALSE)
  >>

\* type Region struct: wire key, Go field, Go type, nested entity, required
Region ==
  <<
    F("byteLength", "ByteLength", "int", "", FALSE),
    F("byteOffset", "ByteOffset", "int", "", FALSE),
    F("charLength", "CharLength", "int", "", FALSE),
    F("charOffset", "CharOffset", "int", "", FALSE),
    F("endColumn", "EndColumn", "int", "", FALSE),
    F("endLine", "EndLine", "int", "", FALSE),
    F("message", "Message", "ptr", "Message", FALSE),
    F("properties", "Properties", "ptr", "PropertyBag", FALSE),
    F("snippet", "Snippet", "ptr", "ArtifactContent", FALSE),
    F("sourceLanguage", "SourceLanguage", "string", "", FALSE),
    F("startColumn", "StartColumn", "int", "", FALSE),
    F("startLine", "StartLine", "int", "", FALSE)
  >>

\* type Replacement struct: wire key, Go field, Go type, nested entity, required
Replacement ==
  <<
    F("deletedRegion", "DeletedRegion", "ptr", "Region", TRUE),
    F("insertedContent", "InsertedContent", "ptr", "ArtifactContent", FALSE),
    F("properties", "Properties", "ptr", "PropertyBag", FALSE)
  >>

\* type ReportingConfiguration struct: wire key, Go field, Go type, nested entity, required
ReportingConfiguration ==
  <<
    F("enabled", "Enabled", "bool", "", FALSE),
    F("level", "Level", "string", "", FALSE),
    F("parameters", "Parameters", "ptr", "PropertyBag", FALSE),
    F("properties", "Properties", "ptr", "PropertyBag", FALSE),
    F("rank", "Rank", "float64", "", FALSE)
  >>

\* type ReportingDescriptor struct: wire key, Go field, Go type, nested entity, required
ReportingDescriptor ==
  <<
    F("defaultConfiguration", "DefaultConfiguration", "ptr", "ReportingConfiguration", FALSE),
    F("deprecatedGuids", "DeprecatedGuids", "strslice", "", FALSE),
    F("deprecatedIds", "DeprecatedIds", "strslice", "", FALSE),
    F("deprecatedNames", "DeprecatedNames", "strslice", "", FALSE),
    F("fullDescription", "FullDescription", "ptr", "MultiformatMessageString", FALSE),
    F("guid", "Guid", "string", "", FALSE),
    F("help", "Help", "ptr", "MultiformatMessageString", FALSE),
    F("helpUri", "HelpUri", "string", "", FALSE),
    F("id", "Id", "string", "", TRUE),
    F("messageStrings", "MessageStrings", "ptrmap", "MultiformatMessageString", FALSE),
    F("name", "Name", "string", "", FALSE),
    F("properties", "Properties", "ptr", "PropertyBag", FALSE),
    F("relationships", "Relationships", "ptrslice", "ReportingDescriptorRelationship", FALSE),
    F("shortDescription", "ShortDescription", "ptr", "MultiformatMessageString", FALSE)
  >>

\* type ReportingDescriptorReference struct: wire key, Go field, Go type, nested entity, required
ReportingDescriptorReference ==
  <<
    F("guid", "Guid", "string", "", FALSE),
    F("id", "Id", "string", "", FALSE),
    F("index", "Index", "int", "", FALSE),
    F("properties", "Properties", "ptr", "PropertyBag", FALSE),
    F("toolComponent", "ToolComponent", "ptr", "ToolComponentReference", FALSE)
  >>

\* type ReportingDescriptorRelationship struct: wire key, Go field, Go type, nested entity, required
ReportingDescriptorRelationship ==
  <<
    F("description", "Description", "ptr", "Message", FALSE),
    F("kinds", "Kinds", "strslice", "", FALSE),
    F("properties", "Properties", "ptr", "PropertyBag", FALSE),
    F("target", "Target", "ptr", "ReportingDescriptorReference", TRUE)
  >>

\* type Result struct: wire key, Go field, Go type, nested entity, required
Result ==
  <<
    F("analysisTarget", "AnalysisTarget", "ptr", "ArtifactLocation", FALSE),
    F("attachments", "Attachments", "ptrslice", "Attachment", FALSE),
    F("baselineState", "BaselineState", "string", "", FALSE),
    F("codeFlows", "CodeFlows", "ptrslice", "CodeFlow", FALSE),
    F("correlationGuid", "CorrelationGuid", "string", "", FALSE),
    F("fingerprints", "Fingerprints", "strmap", "", FALSE),
    F("fixes", "Fixes", "ptrslice", "Fix", FALSE),
    F("graphTraversals", "GraphTraversals", "ptrslice", "GraphTraversal", FALSE),
    F("graphs", "Graphs", "ptrslice", "Graph", FALSE),
    F("guid", "Guid", "string", "", FALSE),
    F("hostedViewerUri", "HostedViewerUri", "string", "", FALSE),
    F("kind", "Kind", "string", "", FALSE),
    F("level", "Level", "string", "", FALSE),
    F("locations", "Locations", "ptrslice", "Location", FALSE),
    F("message", "Message", "ptr", "Message", TRUE),
    F("occurrenceCount", "OccurrenceCount", "int", "", FALSE),
    F("partialFingerprints", "PartialFingerprints", "strmap", "", FALSE),
    F("properties", "Properties", "ptr", "PropertyBag", FALSE),
    F("provenance", "Provenance", "ptr", "ResultProvenance", FALSE),
    F("rank", "Rank", "float64", "", FALSE),
    F("relatedLocations", "RelatedLocations", "ptrslice", "Location", FALSE),
    F("rule", "Rule", "ptr", "ReportingDescriptorReference", FALSE),
    F("ruleId", "RuleId", "string", "", FALSE),
    F("ruleIndex", "RuleIndex", "int", "", FALSE),
    F("stacks", "Stacks", "ptrslice", "Stack", FALSE),
    F("suppressions", "Suppressions", "ptrslice", "Suppression", FALSE),
    F("taxa", "Taxa", "ptrslice", "ReportingDescriptorReference", FALSE),
    F("webRequest", "WebRequest", "ptr", "WebRequest", FALSE),
    F("webResponse", "WebResponse", "ptr", "WebResponse", FALSE),
    F("workItemUris", "WorkItemUris", "strslice", "", FALSE)
  >>

\* type ResultProvenance struct: wire key, Go field, Go type, nested entity, required
ResultProvenance ==
  <<
    F("conversionSources", "ConversionSources", "ptrslice", "PhysicalLocation", FALSE),
    F("firstDetectionRunGuid", "FirstDetectionRunGuid", "string", "", FALSE),
    F("firstDetectionTimeUtc", "FirstDetectionTimeUtc", "string", "", FALSE),
    F("invocationIndex", "InvocationIndex", "int", "", FALSE),
    F("lastDetectionRunGuid", "LastDetectionRunGuid", "string", "", FALSE),
    F("lastDetectionTimeUtc", "LastDetectionTimeUtc", "string", "", FALSE),
    F("properties", "Properties", "ptr", "PropertyBag", FALSE)
  >>

\* type Run struct: wire key, Go field, Go type, nested entity, required
Run ==
  <<
    F("addresses", "Addresses", "ptrslice", "Address", FALSE),
    F("artifacts", "Artifacts", "ptrslice", "Artifact", FALSE),
    F("automationDetails", "AutomationDetails", "ptr", "RunAutomationDetails", FALSE),
    F("baselineGuid", "BaselineGuid", "string", "", FALSE),
    F("columnKind", "ColumnKind", "string", "", FALSE),
    F("conversion", "Conversion", "ptr", "Conversion", FALSE),
    F("defaultEncoding", "DefaultEncoding", "string", "", FALSE),
    F("defaultSourceLanguage", "DefaultSourceLanguage", "string", "", FALSE),
    F("externalPropertyFileReferences", "ExternalPropertyFileReferences", "ptr", "ExternalPropertyFileReferences", FALSE),
    F("graphs", "Graphs", "ptrslice", "Graph", FALSE),
    F("invocations", "Invocations", "ptrslice", "Invocation", FALSE),
    F("language", "Language", "string", "", FALSE),
    F("logicalLocations", "LogicalLocations", "ptrslice", "LogicalLocation", FALSE),
    F("newlineSequences", "NewlineSequences", "strslice", "", FALSE),
    F("originalUriBaseIds", "OriginalUriBaseIds", "ptrmap", "ArtifactLocation", FALSE),
    F("policies", "Policies", "ptrslice", "ToolComponent", FALSE),
    F("properties", "Properties", "ptr", "PropertyBag", FALSE),
    F("redactionTokens", "RedactionTokens", "strslice", "", FALSE),
    F("results", "Results", "ptrslice", "Result", FALSE),
    F("runAggregates", "RunAggregates", "ptrslice", "RunAutomationDetails", FALSE),
    F("specialLocations", "SpecialLocations", "ptr", "SpecialLocations", FALSE),
    F("taxonomies", "Taxonomies", "ptrslice", "ToolComponent", FALSE),
    F("threadFlowLocations", "ThreadFlowLocations", "ptrslice", "ThreadFlowLocation", FALSE),
    F("tool", "Tool", "ptr", "Tool", TRUE),
    F("translations", "Translations", "ptrslice", "ToolComponent", FALSE),
    F("versionControlProvenance", "VersionControlProvenance", "ptrslice", "VersionControlDetails", FALSE),
    F("webRequests", "WebRequests", "ptrslice", "WebRequest", FALSE),
    F("webResponses", "WebResponses", "ptrslice", "WebResponse", FALSE)
  >>

\* type RunAutomationDetails struct: wire key, Go field, Go type, nested entity, required
RunAutomationDetails ==
  <<
    F("correlationGuid", "CorrelationGuid", "string", "", FALSE),
    F("description", "Description", "ptr", "Message", FALSE),
    F("guid", "Guid", "string", "", FALSE),
    F("id", "Id", "string", "", FALSE),
    F("properties", "Properties", "ptr", "PropertyBag", FALSE)
  >>

\* type SpecialLocations struct: wire key, Go field, Go type, nested entity, required
SpecialLocations ==
  <<
    F("displayBase", "DisplayBase", "ptr", "ArtifactLocation", FALSE),
    F("properties", "Properties", "ptr", "PropertyBag", FALSE)
  >>

\* type Stack struct: wire key, Go field, Go type, nested entity, required
Stack ==
  <<
    F("frames", "Frames", "ptrslice", "StackFrame", TRUE),
    F("message", "Message", "ptr", "Message", FALSE),
    F("properties", "Properties", "ptr", "PropertyBag", FALSE)
  >>

\* type StackFrame struct: wire key, Go field, Go type, nested entity, required
StackFrame ==
  <<
    F("location", "Location", "ptr", "Location", FALSE),
    F("module", "Module", "string", "", FALSE),
    F("parameters", "Parameters", "strslice", "", FALSE),
    F("properties", "Properties", "ptr", "PropertyBag", FALSE),
    F("threadId", "ThreadId", "int", "", FALSE)
  >>

\* type SARIF struct with the Schema field under the key "schema"
SARIFPlainSchema ==
  <<
    F("inlineExternalProperties", "InlineExternalProperties", "ptrslice", "ExternalProperties", FALSE),
    F("properties", "Properties", "ptr", "PropertyBag", FALSE),
    F("runs", "Runs", "ptrslice", "Run", TRUE),
    F("schema", "Schema", "string", "", FALSE),
    F("version", "Version", "string", "", TRUE)
  >>

\* type SARIF struct: wire key, Go field, Go type, nested entity, required
SARIF ==
  <<
    F("inlineExternalProperties", "InlineExternalProperties", "ptrslice", "ExternalProperties", FALSE),
    F("properties", "Properties", "ptr", "PropertyBag", FALSE),
    F("runs", "Runs", "ptrslice", "Run", TRUE),
    F("$schema", "Schema", "string", "", FALSE),
    F("version", "Version", "string", "", TRUE)
  >>

\* type Suppression struct: wire key, Go field, Go type, nested entity, required
Suppression ==
  <<
    F("guid", "Guid", "string", "", FALSE),
    F("justification", "Justification", "string", "", FALSE),
    F("kind", "Kind", "string", "", TRUE),
    F("location", "Location", "ptr", "Location", FALSE),
    F("properties", "Properties", "ptr", "PropertyBag", FALSE),
    F("state", "State", "string", "", FALSE)
  >>

\* type ThreadFlow struct: wire key, Go field, Go type, nested entity, required
ThreadFlow ==
  <<
    F("id", "Id", "string", "", FALSE),
    F("immutableState", "ImmutableState", "ptrmap", "MultiformatMessageString", FALSE),
    F("initialState", "InitialState", "ptrmap", "MultiformatMessageString", FALSE),
    F("locations", "Locations", "ptrslice", "ThreadFlowLocation", TRUE),
    F("message", "Message", "ptr", "Message", FALSE),
    F("properties", "Properties", "ptr", "PropertyBag", FALSE)
  >>

\* type ThreadFlowLocation struct: wire key, Go field, Go type, nested entity, required
ThreadFlowLocation ==
  <<
    F("executionOrder", "ExecutionOrder", "int", "", FALSE),
    F("executionTimeUtc", "ExecutionTimeUtc", "string", "", FALSE),
    F("importance", "Importance", "string", "", FALSE),
    F("index", "Index", "int", "", FALSE),
    F("kinds", "Kinds", "strslice", "", FALSE),
    F("location", "Location", "ptr", "Location", FALSE),
    F("module", "Module", "string", "", FALSE),
    F("nestingLevel", "NestingLevel", "int", "", FALSE),
    F("properties", "Properties", "ptr", "PropertyBag", FALSE),
    F("stack", "Stack", "ptr", "Stack", FALSE),
    F("state", "State", "ptrmap", "MultiformatMessageString", FALSE),
    F("taxa", "Taxa", "ptrslice", "ReportingDescriptorReference", FALSE),
    F("webRequest", "WebRequest", "ptr", "WebRequest", FALSE),
    F("webResponse", "WebResponse", "ptr", "WebResponse", FALSE)
  >>

\* type Tool struct: wire key, Go field, Go type, nested entity, required
Tool ==
  <<
    F("driver", "Driver", "ptr", "ToolComponent", TRUE),
    F("extensions", "Extensions", "ptrslice", "ToolComponent", FALSE),
    F("properties", "Properties", "ptr", "PropertyBag", FALSE)
  >>

\* type ToolComponent struct: wire key, Go field, Go type, nested entity, required
ToolComponent ==
  <<
    F("associatedComponent", "AssociatedComponent", "ptr", "ToolComponentReference", FALSE),
    F("contents", "Contents", "string", "", FALSE),
    F("dottedQuadFileVersion", "DottedQuadFileVersion", "string", "", FALSE),
    F("downloadUri", "DownloadUri", "string", "", FALSE),
    F("fullDescription", "FullDescription", "ptr", "MultiformatMessageString", FALSE),
    F("fullName", "FullName", "string", "", FALSE),
    F("globalMessageStrings", "GlobalMessageStrings", "ptrmap", "MultiformatMessageString", FALSE),
    F("guid", "Guid", "string", "", FALSE),
    F("informationUri", "InformationUri", "string", "", FALSE),
    F("isComprehensive", "IsComprehensive", "bool", "", FALSE),
    F("language", "Language", "string", "", FALSE),
    F("localizedDataSemanticVersion", "LocalizedDataSemanticVersion", "string", "", FALSE),
    F("locations", "Locations", "ptrslice", "ArtifactLocation", FALSE),
    F("minimumRequiredLocalizedDataSemanticVersion", "MinimumRequiredLocalizedDataSemanticVersion", "string", "", FALSE),
    F("name", "Name", "string", "", TRUE),
    F("notifications", "Notifications", "ptrslice", "ReportingDescriptor", FALSE),
    F("organization", "Organization", "string", "", FALSE),
    F("product", "Product", "string", "", FALSE),
    F("productSuite", "ProductSuite", "string", "", FALSE),
    F("properties", "Properties", "ptr", "PropertyBag", FALSE),
    F("releaseDateUtc", "ReleaseDateUtc", "string", "", FALSE),
    F("rules", "Rules", "ptrslice", "ReportingDescriptor", FALSE),
    F("semanticVersion", "SemanticVersion", "string", "", FALSE),
    F("shortDescription", "ShortDescription", "ptr", "MultiformatMessageString", FALSE),
    F("supportedTaxonomies", "SupportedTaxonomies", "ptrslice", "ToolComponentReference", FALSE),
    F("taxa", "Taxa", "ptrslice", "ReportingDescriptor", FALSE),
    F("translationMetadata", "TranslationMetadata", "ptr", "TranslationMetadata", FALSE),
    F("version", "Version", "string", "", FALSE)
  >>

\* type ToolComponentReference struct: wire key, Go field, Go type, nested entity, required
ToolComponentReference ==
  <<
    F("guid", "Guid", "string", "", FALSE),
    F("index", "Index", "int", "", FALSE),
    F("name", "Name", "string", "", FALSE),
    F("properties", "Properties", "ptr", "PropertyBag", FALSE)
  >>

\* type TranslationMetadata struct: wire key, Go field, Go type, nested entity, required
TranslationMetadata ==
  <<
    F("downloadUri", "DownloadUri", "string", "", FALSE),
    F("fullDescription", "FullDescription", "ptr", "MultiformatMessageString", FALSE),
    F("fullName", "FullName", "string", "", FALSE),
    F("informationUri", "InformationUri", "string", "", FALSE),
    F("name", "Name", "string", "", TRUE),
    F("properties", "Properties", "ptr", "PropertyBag", FALSE),
    F("shortDescription", "ShortDescription", "ptr", "MultiformatMessageString", FALSE)
  >>

\* type VersionControlDetails struct: wire key, Go field, Go type, nested entity, required
VersionControlDetails ==
  <<
    F("asOfTimeUtc", "AsOfTimeUtc", "string", "", FALSE),
    F("branch", "Branch", "string", "", FALSE),
    F("mappedTo", "MappedTo", "ptr", "ArtifactLocation", FALSE),
    F("properties", "Properties", "ptr", "PropertyBag", FALSE),
    F("repositoryUri", "RepositoryUri", "string", "", TRUE),
    F("revisionId", "RevisionId", "string", "", FALSE),
    F("revisionTag", "RevisionTag", "string", "", FALSE)
  >>

\* type WebRequest struct: wire key, Go field, Go type, nested entity, required
WebRequest ==
  <<
    F("body", "Body", "ptr", "ArtifactContent", FALSE),
    F("headers", "Headers", "strmap", "", FALSE),
    F("index", "Index", "int", "", FALSE),
    F("method", "Method", "string", "", FALSE),
    F("parameters", "Parameters", "strmap", "", FALSE),
    F("properties", "Properties", "ptr", "PropertyBag", FALSE),
    F("protocol", "Protocol", "string", "", FALSE),
    F("target", "Target", "string", "", FALSE),
    F("version", "Version", "string", "", FALSE)
  >>

\* type WebResponse struct: wire key, Go field, Go type, nested entity, required
WebResponse ==
  <<
    F("body", "Body", "ptr", "ArtifactContent", FALSE),
    F("headers", "Headers", "strmap", "", FALSE),
    F("index", "Index", "int", "", FALSE),
    F("noResponseReceived", "NoResponseReceived", "bool", "", FALSE),
    F("properties", "Properties", "ptr", "PropertyBag", FALSE),
    F("protocol", "Protocol", "string", "", FALSE),
    F("reasonPhrase", "ReasonPhrase", "string", "", FALSE),
    F("statusCode", "StatusCode", "int", "", FALSE),
    F("version", "Version", "string", "", FALSE)
  >>

\* type PropertyBag struct: Tags is the one typed key, AdditionalProperties
\* (json:"-") is filled and written by the hand-written range loops
PropertyBag ==
  <<
    F("tags", "Tags", "strslice", "", FALSE)
  >>

\* the struct types of the package
Entities ==
  {"Address", "Artifact", "ArtifactChange", "ArtifactContent",
   "ArtifactLocation", "Attachment", "CodeFlow", "ConfigurationOverride",
   "Conversion", "Edge", "EdgeTraversal", "Exception",
   "ExternalProperties", "ExternalPropertyFileReference", "ExternalPropertyFileReferences", "Fix",
   "Graph", "GraphTraversal", "Invocation", "Location",
   "LocationRelationship", "LogicalLocation", "Message", "MultiformatMessageString",
   "Node", "Notification", "PhysicalLocation", "PropertyBag",
   "Rectangle", "Region", "Replacement", "ReportingConfiguration",
   "ReportingDescriptor", "ReportingDescriptorReference", "ReportingDescriptorRelationship", "Result",
   "ResultProvenance", "Run", "RunAutomationDetails", "SARIF",
   "SpecialLocations", "Stack", "StackFrame", "Suppression",
   "ThreadFlow", "ThreadFlowLocation", "Tool", "ToolComponent",
   "ToolComponentReference", "TranslationMetadata", "VersionControlDetails", "WebRequest",
   "WebResponse"}

\* the field table of struct type T
Struct(T) ==
  CASE T = "Address" -> Address
    [] T = "Artifact" -> Artifact
    [] T = "ArtifactChange" -> ArtifactChange
    [] T = "ArtifactContent" -> ArtifactContent
    [] T = "ArtifactLocation" -> ArtifactLocation
    [] T = "Attachment" -> Attachment
    [] T = "CodeFlow" -> CodeFlow
    [] T = "ConfigurationOverride" -> ConfigurationOverride
    [] T = "Conversion" -> Conversion
    [] T = "Edge" -> Edge
    [] T = "EdgeTraversal" -> EdgeTraversal
    [] T = "Exception" -> Exception
    [] T = "ExternalProperties" -> ExternalProperties
    [] T = "ExternalPropertyFileReference" -> ExternalPropertyFileReference
    [] T = "ExternalPropertyFileReferences" -> ExternalPropertyFileReferences
    [] T = "Fix" -> Fix
    [] T = "Graph" -> Graph
    [] T = "GraphTraversal" -> GraphTraversal
    [] T = "Invocation" -> Invocation
    [] T = "Location" -> Location
    [] T = "LocationRelationship" -> LocationRelationship
    [] T = "LogicalLocation" -> LogicalLocation
    [] T = "Message" -> Message
    [] T = "MultiformatMessageString" -> MultiformatMessageString
    [] T = "Node" -> Node
    [] T = "Notification" -> Notification
    [] T = "PhysicalLocation" -> PhysicalLocation
    [] T = "PropertyBag" -> PropertyBag
    [] T = "Rectangle" -> Rectangle
    [] T = "Region" -> Region
    [] T = "Replacement" -> Replacement
    [] T = "ReportingConfiguration" -> ReportingConfiguration
    [] T = "ReportingDescriptor" -> ReportingDescriptor
    [] T = "ReportingDescriptorReference" -> ReportingDescriptorReference
    [] T = "ReportingDescriptorRelationship" -> ReportingDescriptorRelationship
    [] T = "Result" -> Result
    [] T = "ResultProvenance" -> ResultProvenance
    [] T = "Run" -> Run
    [] T = "RunAutomationDetails" -> RunAutomationDetails
    [] T = "SARIF" -> SARIF
    [] T = "SpecialLocations" -> SpecialLocations
    [] T = "Stack" -> Stack
    [] T = "StackFrame" -> StackFrame
    [] T = "Suppression" -> Suppression
    [] T = "ThreadFlow" -> ThreadFlow
    [] T = "ThreadFlowLocation" -> ThreadFlowLocation
    [] T = "Tool" -> Tool
    [] T = "ToolComponent" -> ToolComponent
    [] T = "ToolComponentReference" -> ToolComponentReference
    [] T = "TranslationMetadata" -> TranslationMetadata
    [] T = "VersionControlDetails" -> VersionControlDetails
    [] T = "WebRequest" -> WebRequest
    [] T = "WebResponse" -> WebResponse

(***************************************************************************)
(* Strings.  Keys and string values are drawn from a small alphabet of Go  *)
(* strings; QuoteKey is the one that holds a double quote (q"k), and       *)
(* QuoteKeyText is its JSON text (q\"k).                                   *)
(***************************************************************************)
QuoteKey == "q\"k"

QuoteKeyText == "q\\\"k"

\* what json.Marshal writes between the quotes for the Go string s
encodeString(s) == IF s = QuoteKey THEN QuoteKeyText ELSE s

\* whether t can stand between two quotes: an unescaped quote ends the string
\* early and leaves text the scanner rejects
validString(t) == t # QuoteKey

\* the Go string json.Unmarshal reads from the string text t
unquote(t) == IF t = QuoteKeyText THEN QuoteKey ELSE t

\* byte order of the strings used as Go map keys (json.Marshal sorts map keys)
ByteOrder == <<"customX", "customY", "md5", "q\"k", "sha", "tags">>

RECURSIVE checkValid(_)
\* the scanner pass json.Unmarshal and json.Marshal (compact) run over a text
checkValid(raw) ==
  CASE raw.kind = "str" -> validString(raw.val)
    [] raw.kind = "arr" -> \A i \in 1..Len(raw.val) : checkValid(raw.val[i])
    [] raw.kind = "obj" ->
         \A i \in 1..Len(raw.val) :
           validString(raw.val[i][1]) /\ checkValid(raw.val[i][2])
    [] raw.kind = "none" -> FALSE
    [] OTHER -> TRUE

(***************************************************************************)
(* Zero values                                                             *)
(***************************************************************************)
\* the zero value of a field of Go type `type`
ZeroOf(type) ==
  CASE type = "int" -> GInt(0)
    [] type = "float64" -> GFloat(0)
    [] type = "string" -> GStr("")
    [] type = "bool" -> GBool(FALSE)
    [] OTHER -> GNil

\* the Go field names in the field table fs
FieldNames(fs) == {fs[i].name : i \in 1..Len(fs)}

\* the entry of the Go field n in the field table fs
FieldByName(fs, n) == fs[CHOOSE i \in 1..Len(fs) : fs[i].name = n]

\* new(T) for the field table fs: every field at its zero value
zeroFields(fs) == [n \in FieldNames(fs) |-> ZeroOf(FieldByName(fs, n).type)]

\* new(T)
Zero(T) ==
  IF T = "PropertyBag"
  THEN GStruct(T, [AdditionalProperties |-> GNil, Tags |-> GNil])
  ELSE GStruct(T, zeroFields(Struct(T)))

(***************************************************************************)
(* Map iteration.  `for k, v := range m` visits the keys of a Go map in an *)
(* order the runtime picks; rng is that pick: the key visited first and    *)
(* the direction in which the others follow.                               *)
(***************************************************************************)
\* the elements of a set of map keys in byte order
SeqOfSet(S) == SelectSeq(ByteOrder, LAMBDA k : k \in S)

Reverse(s) == [i \in 1..Len(s) |-> s[Len(s) + 1 - i]] \o <<>>

\* the order in which a range loop visits the keys listed in `keys`
RangeOrder(keys, rng) ==
  LET rest == SelectSeq(keys, LAMBDA k : k # rng.first)
      tail == IF rng.rev THEN Reverse(rest) ELSE rest
  IN IF \E i \in 1..Len(keys) : keys[i] = rng.first
     THEN <<rng.first>> \o tail
     ELSE tail

\* a loop that goes on after a failure and ends with its last step
LastStep(res) == Len(res)

\* the index at which a loop over the results res ends: its first failure,
\* or its last step when none fails
Last(res) ==
  IF \A i \in 1..Len(res) : res[i].err = NoErr THEN Len(res)
  ELSE CHOOSE i \in 1..Len(res) :
         /\ res[i].err # NoErr
         /\ \A j \in 1..(i - 1) : res[j].err = NoErr

\* the error a loop over the results res ends with
ErrOf(res) == IF res = <<>> THEN NoErr ELSE res[Last(res)].err

(***************************************************************************)
(* Encoding.  Every operator yields [out, err]: the text written and       *)
(* NoErr, or NoBytes and the error.                                        *)
(***************************************************************************)
Written(text) == [out |-> text, err |-> NoErr]

Failed(e) == [out |-> NoBytes, err |-> e]

\* the array a loop has written from the results res of its steps, or the
\* error of the first step that failed
arrayOf(res) ==
  IF ErrOf(res) # NoErr THEN Failed(ErrOf(res))
  ELSE Written(JArr([i \in 1..Len(res) |-> res[i].out] \o <<>>))

\* the object a loop has written under the key texts `keys` from the results
\* res of its steps, or the error of the first step that failed
objectOf(keys, res) ==
  IF ErrOf(res) # NoErr THEN Failed(ErrOf(res))
  ELSE Written(JObj([i \in 1..Len(res) |-> <<keys[i], res[i].out>>] \o <<>>))

\* json.Marshal that writes null for a MarshalJSON that failed
marshalerResultLenient(r) ==
  IF r.err # NoErr THEN Written(JNull) ELSE r

\* what json.Marshal makes of the result r of a MarshalJSON method: its
\* error comes back inside a json.MarshalerError, and its text must pass the
\* scanner
marshalerResult(r) ==
  IF r.err # NoErr THEN Failed(MarshalerError(r.err))
  ELSE IF ~checkValid(r.out) THEN Failed(MarshalerError(Err("syntax", "")))
  ELSE r

\* the object json.Marshal writes for a map whose sorted keys are ks and
\* whose values gave the array r
mapObject(ks, r) ==
  IF r.err # NoErr THEN r
  ELSE Written(JObj([i \in 1..Len(ks) |-> <<encodeString(ks[i]), r.out.val[i]>>] \o <<>>))

\* the values of the Go map m under the keys ks
valuesAt(m, ks) == [i \in 1..Len(ks) |-> m[ks[i]]] \o <<>>

\* PropertyBag.MarshalJSON's text: the "tags" member, then the additional
\* properties
bagObject(tags, more) ==
  IF tags.err # NoErr THEN tags
  ELSE IF more.err # NoErr THEN more
  ELSE Written(JObj(tags.out.val \o more.out.val))

RECURSIVE marshalAny(_)
\* json.Marshal of an interface{} value, by its dynamic type; the keys of a
\* map[string]interface{} are written in sorted order
marshalAny(v) ==
  CASE v.kind = "nil" -> JNull
    [] v.kind = "int" -> JNum(v.val)
    [] v.kind = "float64" -> JNum(v.val)
    [] v.kind = "string" -> JStr(encodeString(v.val))
    [] v.kind = "bool" -> JBool(v.val)
    [] v.kind = "slice" -> JArr([i \in 1..Len(v.val) |-> marshalAny(v.val[i])] \o <<>>)
    [] v.kind = "map" ->
         JObj([i \in 1..Cardinality(DOMAIN v.val) |->
                 <<encodeString(SeqOfSet(DOMAIN v.val)[i]),
                   marshalAny(v.val[SeqOfSet(DOMAIN v.val)[i]])>>] \o <<>>)

RECURSIVE MarshalJSON(_, _, _)
RECURSIVE jsonMarshal(_, _, _, _)
RECURSIVE marshalElems(_, _, _)
RECURSIVE marshalField(_, _, _)
RECURSIVE marshalFields(_, _, _)

\* json.Marshal(strct.Field) for a field of Go type `type` (elem: the struct
\* pointed to).  A nil pointer, slice or map is written as null; a non-nil
\* struct pointer is written by its MarshalJSON.
jsonMarshal(type, elem, v, rng) ==
  CASE type = "int" -> Written(JNum(v.val))
    [] type = "float64" -> Written(JNum(v.val))
    [] type = "string" -> Written(JStr(encodeString(v.val)))
    [] type = "bool" -> Written(JBool(v.val))
    [] type = "ptr" ->
         IF v = GNil THEN Written(JNull)
         ELSE marshalerResult(MarshalJSON(elem, v, rng))
    [] type = "ptrslice" ->
         IF v = GNil THEN Written(JNull)
         ELSE marshalElems(elem, v.val, rng)
    [] type = "strslice" ->
         IF v = GNil THEN Written(JNull)
         ELSE Written(JArr([i \in 1..Len(v.val) |->
                              JStr(encodeString(v.val[i].val))] \o <<>>))
    [] type = "strmap" ->
         IF v = GNil THEN Written(JNull)
         ELSE Written(JObj([i \in 1..Cardinality(DOMAIN v.val) |->
                <<encodeString(SeqOfSet(DOMAIN v.val)[i]),
                  JStr(encodeString(v.val[SeqOfSet(DOMAIN v.val)[i]].val))>>] \o <<>>))
    [] type = "ptrmap" ->
         IF v = GNil THEN Written(JNull)
         ELSE mapObject(SeqOfSet(DOMAIN v.val),
                        marshalElems(elem, valuesAt(v.val, SeqOfSet(DOMAIN v.val)), rng))
    [] type = "any" -> Written(marshalAny(v))

\* the elements of a []*T, in order; the first failure ends the call
marshalElems(elem, s, rng) ==
  arrayOf([i \in 1..Len(s) |-> jsonMarshal("ptr", elem, s[i], rng)] \o <<>>)

\* the block of (strct *T) MarshalJSON that writes field f holding v: a
\* required pointer field is checked for nil first ("only required object
\* types supported for marshal checking"), every other field goes to
\* json.Marshal as it is
marshalField(f, v, rng) ==
  IF f.required /\ f.type = "ptr" /\ v = GNil
  THEN Failed(Err("missing", f.key))
  ELSE jsonMarshal(f.type, f.elem, v, rng)

\* MarshalJSON that leaves out the fields holding their zero value, as
\* `omitempty` would
marshalFieldsOmitEmpty(fs, strct, rng) ==
  LET set == SelectSeq(fs, LAMBDA f : strct.val[f.name] # ZeroOf(f.type))
  IN objectOf([i \in 1..Len(set) |-> set[i].key] \o <<>>,
              [i \in 1..Len(set) |-> marshalField(set[i], strct.val[set[i].name], rng)] \o <<>>)

\* the fields of (strct *T) MarshalJSON, in declaration order: the first
\* block that fails ends the call with its error, and every field is written
\* under its wire key whatever its value
marshalFields(fs, strct, rng) ==
  objectOf([i \in 1..Len(fs) |-> fs[i].key] \o <<>>,
           [i \in 1..Len(fs) |-> marshalField(fs[i], strct.val[fs[i].name], rng)] \o <<>>)

\* the range loop of (strct *PropertyBag) MarshalJSON over the keys ks:
\* each key is written by fmt.Sprintf("\"%s\":", k), that is, as it stands
marshalAdditional(strct, ks) ==
  objectOf(ks, [i \in 1..Len(ks) |->
                  jsonMarshal("any", "", strct.val.AdditionalProperties.val[ks[i]],
                              [first |-> "", rev |-> FALSE])] \o <<>>)

\* the keys of the bag's AdditionalProperties in the order the range loop
\* visits them
additionalKeys(strct, rng) ==
  IF strct.val.AdditionalProperties = GNil THEN <<>>
  ELSE RangeOrder(SeqOfSet(DOMAIN strct.val.AdditionalProperties.val), rng)

\* (strct *T) MarshalJSON
MarshalJSON(T, strct, rng) ==
  IF T = "PropertyBag"
  THEN bagObject(marshalFields(PropertyBag, strct, rng),
                 marshalAdditional(strct, additionalKeys(strct, rng)))
  ELSE marshalFields(Struct(T), strct, rng)

(***************************************************************************)
(* Decoding.  json.Unmarshal(b, &jsonMap) reads an object into a Go map    *)
(* from key to raw value: of a repeated key the last occurrence stays.     *)
(***************************************************************************)
\* jsonMap without the keys whose value is null
distinctKeysNonNull(m) ==
  LET ks == [i \in 1..Len(m) |-> <<i, unquote(m[i][1])>>] \o <<>>
      firsts == SelectSeq(ks, LAMBDA p :
                  /\ \A j \in 1..(p[1] - 1) : ks[j][2] # p[2]
                  /\ \E j \in 1..Len(m) :
                       /\ ks[j][2] = p[2]
                       /\ \A l \in (j + 1)..Len(m) : ks[l][2] # p[2]
                       /\ m[j][2] # JNull)
  IN [i \in 1..Len(firsts) |-> firsts[i][2]] \o <<>>

\* the keys of the member list m, each once
distinctKeys(m) ==
  LET ks == [i \in 1..Len(m) |-> <<i, unquote(m[i][1])>>] \o <<>>
      firsts == SelectSeq(ks, LAMBDA p : \A j \in 1..(p[1] - 1) : ks[j][2] # p[2])
  IN [i \in 1..Len(firsts) |-> firsts[i][2]] \o <<>>

\* the index in the first n members of m of the first one with key k
firstAt(m, n, k) ==
  CHOOSE i \in 1..n :
    /\ unquote(m[i][1]) = k
    /\ \A j \in 1..(i - 1) : unquote(m[j][1]) # k

\* the index in the first n members of m of the last one with key k
lastAt(m, n, k) ==
  CHOOSE i \in 1..n :
    /\ unquote(m[i][1]) = k
    /\ \A j \in (i + 1)..n : unquote(m[j][1]) # k

\* jsonMap[k]
rawOf(m, k) == m[lastAt(m, Len(m), k)][2]

Decoded(v) == [val |-> v, err |-> NoErr]

Rejected(v, e) == [val |-> v, err |-> e]

RECURSIVE unmarshalAny(_)
\* json.Unmarshal into an interface{}: a number becomes a float64, an array
\* a []interface{}, an object a map[string]interface{}
unmarshalAny(raw) ==
  CASE raw.kind = "null" -> GNil
    [] raw.kind = "num" -> GFloat(raw.val)
    [] raw.kind = "str" -> GStr(unquote(raw.val))
    [] raw.kind = "bool" -> GBool(raw.val)
    [] raw.kind = "arr" ->
         GSlice([i \in 1..Len(raw.val) |-> unmarshalAny(raw.val[i])] \o <<>>)
    [] raw.kind = "obj" ->
         GMap([k \in {unquote(raw.val[i][1]) : i \in 1..Len(raw.val)} |->
                 unmarshalAny(rawOf(raw.val, k))])

\* the Go map that held `old` once the first n members of m have been
\* stored in it, member i with the value res[i].val
mapOf(m, n, res, old) ==
  GMap([k \in {unquote(m[i][1]) : i \in 1..n} \cup DOMAIN old |->
          IF \E i \in 1..n : unquote(m[i][1]) = k
          THEN res[lastAt(m, n, k)].val
          ELSE old[k]])

\* the elements of a JSON array read into a []string that held `old`: a
\* null element and an element of another type leave the element as it
\* was, and the first type error is reported once the array has been read
unmarshalStrings(raws, old) ==
  LET res == [i \in 1..Len(raws) |->
                LET was == IF i <= Len(old) THEN old[i] ELSE GStr("")
                IN IF raws[i].kind = "null" THEN [val |-> was, err |-> NoErr]
                   ELSE IF raws[i].kind = "str"
                        THEN [val |-> GStr(unquote(raws[i].val)), err |-> NoErr]
                        ELSE [val |-> was, err |-> Err("malformed", "")]] \o <<>>
  IN [val |-> GSlice([i \in 1..Len(raws) |-> res[i].val] \o <<>>), err |-> ErrOf(res)]

\* the members of a JSON object read into a map[string]string that held
\* `old`, in the order written: each sets its key, a null member and a
\* member of another type set it to "", and the first type error is reported
\* once the object has been read
unmarshalStrMap(m, old) ==
  LET res == [i \in 1..Len(m) |->
                IF m[i][2].kind = "str"
                THEN [val |-> GStr(unquote(m[i][2].val)), err |-> NoErr]
                ELSE [val |-> GStr(""),
                      err |-> IF m[i][2].kind = "null" THEN NoErr
                              ELSE Err("malformed", "")]] \o <<>>
  IN [val |-> mapOf(m, Len(m), res, old), err |-> ErrOf(res)]

\* sliceOf that takes an empty array for an absent one
sliceOfNonEmpty(res, old) ==
  IF res = <<>> THEN Rejected(GNil, Err("missing", ""))
  ELSE IF ErrOf(res) = NoErr
  THEN Decoded(GSlice([i \in 1..Len(res) |-> res[i].val] \o <<>>))
  ELSE Rejected(GSlice(([i \in 1..Last(res) |-> res[i].val] \o <<>>)
                       \o SubSeq(old, Last(res) + 1, Len(old))),
                ErrOf(res))

\* the []*T that held `old` once a JSON array has been read into it with
\* the results res: the error of an element's UnmarshalJSON ends the call
\* with the slice as far as it was written
sliceOf(res, old) ==
  IF ErrOf(res) = NoErr
  THEN Decoded(GSlice([i \in 1..Len(res) |-> res[i].val] \o <<>>))
  ELSE Rejected(GSlice(([i \in 1..Last(res) |-> res[i].val] \o <<>>)
                       \o SubSeq(old, Last(res) + 1, Len(old))),
                ErrOf(res))

\* the map[string]*T that held `old` once the object m has been read into
\* it with the results res: the error of a member's UnmarshalJSON ends the
\* call before the member is stored
ptrMapOf(m, res, old) ==
  [val |-> mapOf(m, IF ErrOf(res) = NoErr THEN Len(m) ELSE Last(res) - 1, res, old),
   err |-> ErrOf(res)]

\* what json.Unmarshal into a *T makes of the result r of UnmarshalJSON
unmarshalerResult(r) == [val |-> r.inst, err |-> r.err]

\* the value a pointer holds when json.Unmarshal hands it to UnmarshalJSON:
\* what it pointed to, or a new(T) when it was nil
pointee(elem, old) == IF old = GNil THEN Zero(elem) ELSE old

\* the elements a slice holds, none when it is nil
elemsOf(old) == IF old = GNil THEN <<>> ELSE old.val

\* the entries a map holds, none when it is nil
entriesOf(old) == IF old = GNil THEN EmptyMap ELSE old.val

RECURSIVE UnmarshalJSON(_, _, _, _)
RECURSIVE jsonUnmarshal(_, _, _, _, _)
RECURSIVE unmarshalElems(_, _, _, _)
RECURSIVE unmarshalPtrMap(_, _, _, _)
RECURSIVE unmarshalField(_, _, _, _)
RECURSIVE additionalProperty(_, _, _, _)
RECURSIVE unmarshalKeys(_, _, _, _, _)

\* json.Unmarshal([]byte(v), &strct.Field) for a field of Go type `type`
\* holding `old`.  null sets a pointer, slice or map to nil and leaves any
\* other field as it is; a value of another JSON type is an
\* UnmarshalTypeError and leaves the field as it is; a pointer to a struct
\* is allocated when nil and handed to its UnmarshalJSON.
jsonUnmarshal(type, elem, raw, old, rng) ==
  CASE type = "int" ->
         IF raw.kind = "null" THEN Decoded(old)
         ELSE IF raw.kind = "num" THEN Decoded(GInt(raw.val))
         ELSE Rejected(old, Err("malformed", ""))
    [] type = "float64" ->
         IF raw.kind = "null" THEN Decoded(old)
         ELSE IF raw.kind = "num" THEN Decoded(GFloat(raw.val))
         ELSE Rejected(old, Err("malformed", ""))
    [] type = "string" ->
         IF raw.kind = "null" THEN Decoded(old)
         ELSE IF raw.kind = "str" THEN Decoded(GStr(unquote(raw.val)))
         ELSE Rejected(old, Err("malformed", ""))
    [] type = "bool" ->
         IF raw.kind = "null" THEN Decoded(old)
         ELSE IF raw.kind = "bool" THEN Decoded(GBool(raw.val))
         ELSE Rejected(old, Err("malformed", ""))
    [] type = "ptr" ->
         IF raw.kind = "null" THEN Decoded(GNil)
         ELSE unmarshalerResult(UnmarshalJSON(elem, pointee(elem, old), raw, rng))
    [] type = "ptrslice" ->
         IF raw.kind = "null" THEN Decoded(GNil)
         ELSE IF raw.kind = "arr"
              THEN unmarshalElems(elem, raw.val, elemsOf(old), rng)
              ELSE Rejected(old, Err("malformed", ""))
    [] type = "strslice" ->
         IF raw.kind = "null" THEN Decoded(GNil)
         ELSE IF raw.kind = "arr"
              THEN unmarshalStrings(raw.val, elemsOf(old))
              ELSE Rejected(old, Err("malformed", ""))
    [] type = "strmap" ->
         IF raw.kind = "null" THEN Decoded(GNil)
         ELSE IF raw.kind = "obj"
              THEN unmarshalStrMap(raw.val, entriesOf(old))
              ELSE Rejected(old, Err("malformed", ""))
    [] type = "ptrmap" ->
         IF raw.kind = "null" THEN Decoded(GNil)
         ELSE IF raw.kind = "obj"
              THEN unmarshalPtrMap(elem, raw.val, entriesOf(old), rng)
              ELSE Rejected(old, Err("malformed", ""))
    [] type = "any" -> Decoded(unmarshalAny(raw))

\* the elements of a JSON array read into a []*T that held `old`: element i
\* is read into old[i] when the slice had one
unmarshalElems(elem, raws, old, rng) ==
  sliceOf([i \in 1..Len(raws) |->
             jsonUnmarshal("ptr", elem, raws[i],
                           IF i <= Len(old) THEN old[i] ELSE GNil, rng)] \o <<>>,
          old)

\* the members of a JSON object read into a map[string]*T that held `old`,
\* in the order written, each into a new pointer
unmarshalPtrMap(elem, m, old, rng) ==
  ptrMapOf(m, [i \in 1..Len(m) |-> jsonUnmarshal("ptr", elem, m[i][2], GNil, rng)] \o <<>>,
           old)

\* every wire key taken as required
RequiredKeysAll(fs) == [i \in 1..Len(fs) |-> fs[i].key] \o <<>>

\* the wire keys of the required fields in the field table fs, in
\* declaration order
RequiredKeys(fs) ==
  [i \in 1..Len(SelectSeq(fs, LAMBDA f : f.required)) |->
     SelectSeq(fs, LAMBDA f : f.required)[i].key] \o <<>>

\* the last of the keys req that is not in `received`, or none
lastMissing(req, received) ==
  IF \A i \in 1..Len(req) : req[i] \in received THEN NoErr
  ELSE Err("missing", req[CHOOSE i \in 1..Len(req) :
                            /\ req[i] \notin received
                            /\ \A j \in (i + 1)..Len(req) : req[j] \in received])

\* the first of the keys req that is not in `received`, or none
firstMissing(req, received) ==
  IF \A i \in 1..Len(req) : req[i] \in received THEN NoErr
  ELSE Err("missing", req[CHOOSE i \in 1..Len(req) :
                            /\ req[i] \notin received
                            /\ \A j \in 1..(i - 1) : req[j] \in received])

\* the checks after the loop with the last required key left unchecked
checkReceivedButLast(fs, received) ==
  firstMissing(SubSeq(RequiredKeys(fs), 1, Len(RequiredKeys(fs)) - 1), received)

\* the checks after the loop: the first required key that was not received
checkReceived(fs, received) == firstMissing(RequiredKeys(fs), received)

\* `case "k":` that takes no negative integer
unmarshalFieldValidated(f, raw, old, rng) ==
  IF f.type = "int" /\ raw.kind = "num" /\ raw.val < 0
  THEN Rejected(old, Err("malformed", ""))
  ELSE jsonUnmarshal(f.type, f.elem, raw, old, rng)

\* `case "k":` with the error of json.Unmarshal dropped
unmarshalFieldUnchecked(f, raw, old, rng) ==
  [val |-> jsonUnmarshal(f.type, f.elem, raw, old, rng).val, err |-> NoErr]

\* `case "k":` of the switch: json.Unmarshal([]byte(v), &strct.Field), whose
\* error ends the call
unmarshalField(f, raw, old, rng) == jsonUnmarshal(f.type, f.elem, raw, old, rng)

\* `default:` that skips the key
additionalPropertySkipped(strct, k, raw, rng) ==
  IF strct.kind = "PropertyBag"
  THEN jsonUnmarshal("any", "", raw, GNil, rng)
  ELSE Decoded(GNil)

\* `default:` of the switch, for a key k the struct does not declare: the
\* additional-property error, except in a PropertyBag, which reads the
\* value into an interface{} for its AdditionalProperties
additionalProperty(strct, k, raw, rng) ==
  IF strct.kind = "PropertyBag"
  THEN jsonUnmarshal("any", "", raw, GNil, rng)
  ELSE Rejected(GNil, Err("unrecognized", k))

\* loopResult with the required keys checked before the errors of the loop
loopResultRequiredFirst(fs, strct, ks, res) ==
  LET n == Last(res)
      visited == {ks[i] : i \in 1..n}
      at(k) == CHOOSE i \in 1..n : ks[i] = k
      more == {k \in visited : \A j \in 1..Len(fs) : fs[j].key # k}
      was == IF strct.kind = "PropertyBag" /\ strct.val.AdditionalProperties # GNil
             THEN strct.val.AdditionalProperties.val ELSE EmptyMap
      next == [name \in DOMAIN strct.val |->
                 IF name = "AdditionalProperties"
                 THEN IF more = {} THEN strct.val[name]
                      ELSE GMap([k \in more \cup DOMAIN was |->
                                   IF k \in more THEN res[at(k)].val ELSE was[k]])
                 ELSE IF FieldByName(fs, name).key \in visited
                      THEN res[at(FieldByName(fs, name).key)].val
                      ELSE strct.val[name]]
  IN [inst |-> [strct EXCEPT !.val = next],
      err |-> IF checkReceived(fs, {ks[i] : i \in 1..Len(ks)}) # NoErr
              THEN checkReceived(fs, {ks[i] : i \in 1..Len(ks)})
              ELSE ErrOf(res)]

\* the instance and the error the range loop ends with, having visited the
\* keys ks with the results res: the first step that failed ends the loop
\* with its error, the fields of the keys visited until then hold what
\* json.Unmarshal left in them, and the undeclared keys of a PropertyBag are
\* in its AdditionalProperties; when no step failed the required keys are
\* checked
loopResult(fs, strct, ks, res) ==
  LET n == Last(res)
      visited == {ks[i] : i \in 1..n}
      at(k) == CHOOSE i \in 1..n : ks[i] = k
      more == {k \in visited : \A j \in 1..Len(fs) : fs[j].key # k}
      was == IF strct.kind = "PropertyBag" /\ strct.val.AdditionalProperties # GNil
             THEN strct.val.AdditionalProperties.val ELSE EmptyMap
      next == [name \in DOMAIN strct.val |->
                 IF name = "AdditionalProperties"
                 THEN IF more = {} THEN strct.val[name]
                      ELSE GMap([k \in more \cup DOMAIN was |->
                                   IF k \in more THEN res[at(k)].val ELSE was[k]])
                 ELSE IF FieldByName(fs, name).key \in visited
                      THEN res[at(FieldByName(fs, name).key)].val
                      ELSE strct.val[name]]
  IN [inst |-> [strct EXCEPT !.val = next],
      err |-> IF ErrOf(res) # NoErr THEN ErrOf(res) ELSE checkReceived(fs, visited)]

\* the range loop of (strct *T) UnmarshalJSON over jsonMap (the member list
\* m), visiting the keys in the order ks.  A declared key is read into its
\* field; any other key goes to the default branch.
unmarshalKeys(fs, strct, m, ks, rng) ==
  loopResult(fs, strct, ks,
    [i \in 1..Len(ks) |->
       IF \E j \in 1..Len(fs) : fs[j].key = ks[i]
       THEN unmarshalField(fs[CHOOSE j \in 1..Len(fs) : fs[j].key = ks[i]],
                           rawOf(m, ks[i]),
                           strct.val[fs[CHOOSE j \in 1..Len(fs) : fs[j].key = ks[i]].name],
                           rng)
       ELSE additionalProperty(strct, ks[i], rawOf(m, ks[i]), rng)] \o <<>>)

\* (strct *T) UnmarshalJSON(b) for the field table fs of T:
\* json.Unmarshal(b, &jsonMap) rejects a text that is not JSON or not an
\* object, and leaves jsonMap nil for null; then the loop and the checks
unmarshalObject(fs, strct, b, rng) ==
  IF ~checkValid(b) THEN [inst |-> strct, err |-> Err("syntax", "")]
  ELSE IF b.kind = "null" THEN [inst |-> strct, err |-> checkReceived(fs, {})]
  ELSE IF b.kind # "obj" THEN [inst |-> strct, err |-> Err("malformed", "")]
  ELSE unmarshalKeys(fs, strct, b.val, RangeOrder(distinctKeys(b.val), rng), rng)

\* (strct *T) UnmarshalJSON(b)
UnmarshalJSON(T, strct, b, rng) == unmarshalObject(Struct(T), strct, b, rng)

(***************************************************************************)
(* Inputs: the wire documents handed to decode and the instances built by  *)
(* direct field assignment.                                                *)
(***************************************************************************)
\* a key no struct declares
UnknownKey == "customX"

\* the PropertyBag object of the openness example, and one whose key holds
\* a quote
BagWire ==
  {JObj(<<>>),
   JObj(<< <<"tags", JArr(<<JStr("a"), JStr("b")>>)>>,
           <<"customX", JNum(42)>>, <<"customY", JStr("z")>> >>),
   JObj(<< <<"customX", JNum(42)>> >>),
   JObj(<< <<"tags", JNull>>, <<"customY", JArr(<<JNum(1), JNull>>)>> >>),
   JObj(<< <<QuoteKeyText, JNum(1)>> >>),
   JObj(<< <<"customX", JNum(1)>>, <<"customX", JNum(42)>> >>)}

RECURSIVE Good(_)
\* the value of the required field f in the smallest valid object
goodValue(f) ==
  CASE f.type = "ptr" -> Good(f.elem)
    [] f.type = "ptrslice" -> JArr(<<Good(f.elem)>>)
    [] f.type = "string" -> JStr("a")
    [] f.type = "int" -> JNum(1)
    [] f.type = "bool" -> JBool(TRUE)

\* the members of the smallest valid object whose required fields are req
goodMembers(req) == [i \in 1..Len(req) |-> <<req[i].key, goodValue(req[i])>>] \o <<>>

\* the smallest valid object of T: its required keys only, in declaration
\* order
Good(T) == JObj(goodMembers(SelectSeq(Struct(T), LAMBDA f : f.required)))

\* the member list m without key k
Without(m, k) == SelectSeq(m, LAMBDA p : p[1] # k)

\* the member list m with key k set to v: in place when m has k, else added
With(m, k, v) ==
  IF \E i \in 1..Len(m) : m[i][1] = k
  THEN [i \in 1..Len(m) |-> IF m[i][1] = k THEN <<k, v>> ELSE m[i]]
  ELSE Append(m, <<k, v>>)

\* the valid object `good` made one its decode rejects, req being its
\* required keys
brokenOf(req, good) ==
  IF req # <<>>
  THEN JObj(Without(good.val, req[1]))
  ELSE JObj(<< <<UnknownKey, JNum(42)>> >>)

\* an object of T that T's decode rejects: a required key is missing, or,
\* when T requires none, an undeclared key is present
Broken(T) == brokenOf(RequiredKeys(Struct(T)), Good(T))

\* values of the JSON type that field f takes: one that is not the zero
\* value of the field and, for a required field, the zero value and null
Samples(f) ==
  LET zero == IF f.required THEN {JNull} ELSE {}
  IN CASE f.type = "int" -> {JNum(-1), JNum(7)} \cup zero \cup (IF f.required THEN {JNum(0)} ELSE {})
       [] f.type = "float64" -> {JNum(7)}
       [] f.type = "string" -> {JStr("b")} \cup zero \cup (IF f.required THEN {JStr("")} ELSE {})
       [] f.type = "bool" -> {JBool(TRUE)} \cup zero \cup (IF f.required THEN {JBool(FALSE)} ELSE {})
       [] f.type = "ptr" ->
            IF f.elem = "PropertyBag" THEN BagWire \ {JObj(<<>>)}
            ELSE {Good(f.elem)} \cup zero
       [] f.type = "ptrslice" ->
            {JArr(<<Good(f.elem), JNull>>)} \cup zero \cup (IF f.required THEN {JArr(<<>>)} ELSE {})
       [] f.type = "strslice" -> {JArr(<<JStr("a"), JStr("b")>>), JArr(<<>>)}
       [] f.type = "strmap" -> {JObj(<< <<"sha", JStr("b")>>, <<"md5", JStr("a")>> >>)}
       [] f.type = "ptrmap" -> {JObj(<< <<"md5", Good(f.elem)>>, <<"sha", JNull>> >>)}

\* values for field f that hold a nested object its decode rejects
BrokenSamples(f) ==
  CASE f.type = "ptr" ->
         IF f.elem = "PropertyBag" THEN {} ELSE {Broken(f.elem)}
    [] f.type = "ptrslice" -> {JArr(<<Good(f.elem), Broken(f.elem)>>)}
    [] f.type = "ptrmap" -> {JObj(<< <<"md5", Broken(f.elem)>> >>)}
    [] OTHER -> {}

RECURSIVE DeepBroken(_)
\* `good` with the failure under the first of the fields `nested`
deepBrokenOf(nested, good) ==
  JObj(With(good.val, nested[1].key,
            IF nested[1].type = "ptr" THEN DeepBroken(nested[1].elem)
            ELSE JArr(<<DeepBroken(nested[1].elem)>>)))

\* the required fields of the field table fs that hold nested objects
nestedRequired(fs) ==
  SelectSeq(fs, LAMBDA f : f.required /\ f.type \in {"ptr", "ptrslice"})

\* Good(T) with the failure as deep as the required fields reach
DeepBroken(T) ==
  IF \A i \in 1..Len(Struct(T)) :
       ~(Struct(T)[i].required /\ Struct(T)[i].type \in {"ptr", "ptrslice"})
  THEN Broken(T)
  ELSE deepBrokenOf(nestedRequired(Struct(T)), Good(T))

\* the document of the minimal-document example
MinimalDocument ==
  JObj(<< <<"version", JStr("2.1.0")>>,
          <<"runs", JArr(<< JObj(<< <<"tool", JObj(<< <<"driver",
                       JObj(<< <<"name", JStr("Analyzer")>> >>)>> >>)>> >>) >>)>> >>)

\* a value of a JSON type that field f does not take
Malformed(f) ==
  CASE f.type \in {"string", "bool"} -> JNum(5)
    [] f.type = "strslice" -> JObj(<<>>)
    [] f.type \in {"strmap", "ptrmap"} -> JArr(<<>>)
    [] OTHER -> JStr("x")

\* a value that field f takes
Plain(f) == CHOOSE v \in Samples(f) : v # JNull

\* the objects that hold the members `rest` and the key k twice, once with
\* the value v and once with the value bad, in either order
repeatedWith(rest, k, bad, v) ==
  {JObj(<< <<k, bad>> >> \o rest \o << <<k, v>> >>),
   JObj(<< <<k, v>> >> \o rest \o << <<k, bad>> >>)}

\* the wire documents made from the valid object `good` of the field
\* table fs
inputsOf(fs, good) ==
  {JObj(Append(good.val, <<UnknownKey, JNum(42)>>)), JObj(<<>>)}
  \cup {JObj(SelectSeq(good.val, LAMBDA p : p[1] = fs[i].key))
          : i \in {j \in 1..Len(fs) : fs[j].required}}
  \cup {JObj(Without(good.val, fs[i].key)) : i \in {j \in 1..Len(fs) : fs[j].required}}
  \cup {JObj(Append(Without(good.val, fs[i].key), <<UnknownKey, JNum(42)>>))
          : i \in {j \in 1..Len(fs) : fs[j].required}}
  \cup UNION {repeatedWith(Without(good.val, fs[i].key), fs[i].key,
                           Malformed(fs[i]), Plain(fs[i])) : i \in 1..Len(fs)}
  \cup UNION {{JObj(With(good.val, fs[i].key, v)) : v \in Samples(fs[i]) \cup BrokenSamples(fs[i])}
               : i \in 1..Len(fs)}

\* deepest tree of nodes
MaxDepth == 3

RECURSIVE NodeTree(_, _, _)
\* the Node object named id over d levels of "children", two children to a
\* node; the last node of the level `gap`, counted from the leaves, has no
\* "id" (none when gap is 0)
NodeTree(d, gap, id) ==
  JObj((IF d = gap THEN <<>> ELSE << <<"id", JStr(id)>> >>)
       \o (IF d = 1 THEN <<>>
           ELSE << <<"children", JArr(<<NodeTree(d - 1, 0, "a"),
                                        NodeTree(d - 1, gap, "b")>>)>> >>))

\* the trees of nodes, whole and with one "id" missing
NodeTrees == {NodeTree(d[1], d[2], "a") : d \in {e \in (1..MaxDepth) \X (0..MaxDepth) : e[2] <= e[1]}}

\* the wire documents for T
Inputs(T) ==
  IF T = "PropertyBag" THEN BagWire
  ELSE {Good(T), DeepBroken(T)}
       \cup inputsOf(Struct(T), Good(T))
       \cup (IF T = "SARIF" THEN {MinimalDocument} ELSE {})
       \cup (IF T = "Node" THEN NodeTrees ELSE {})

\* the value under the key of field f in the text an instance was decoded
\* from earlier
earlierValue(f) ==
  CASE f.type \in {"int", "float64"} -> JNum(3)
    [] f.type = "string" -> JStr("z")
    [] f.type = "bool" -> JBool(TRUE)
    [] f.type = "ptr" ->
         IF f.elem = "PropertyBag"
         THEN JObj(<< <<"tags", JArr(<<JStr("z")>>)>>, <<"customY", JNum(3)>> >>)
         ELSE Good(f.elem)
    [] f.type = "ptrslice" -> JArr(<<Good(f.elem)>>)
    [] f.type = "strslice" -> JArr(<<JStr("z")>>)
    [] f.type = "strmap" -> JObj(<< <<"customX", JStr("z")>>, <<"sha", JStr("z")>> >>)
    [] f.type = "ptrmap" -> JObj(<< <<"customX", Good(f.elem)>> >>)

\* the text an instance of the field table fs was decoded from earlier:
\* every key with a value, and for a PropertyBag an additional key
Earlier(fs) ==
  JObj([i \in 1..Len(fs) |-> <<fs[i].key, earlierValue(fs[i])>>] \o <<>>
       \o (IF fs = PropertyBag THEN << <<"customY", JNum(3)>> >> ELSE <<>>))

\* PropertyBag instances built by assignment
Bags ==
  {Zero("PropertyBag"),
   GStruct("PropertyBag",
     [AdditionalProperties |-> GMap([k \in {"customX", "customY"} |->
                                       IF k = "customX" THEN GFloat(42) ELSE GStr("z")]),
      Tags |-> GSlice(<<GStr("a"), GStr("b")>>)]),
   GStruct("PropertyBag",
     [AdditionalProperties |-> GNil, Tags |-> GSlice(<<>>)]),
   GStruct("PropertyBag",
     [AdditionalProperties |-> GMap([k \in {"customX"} |-> GInt(42)]), Tags |-> GNil]),
   GStruct("PropertyBag",
     [AdditionalProperties |-> GMap([k \in {QuoteKey} |-> GFloat(1)]), Tags |-> GNil]),
   GStruct("PropertyBag",
     [AdditionalProperties |-> GMap([k \in {"tags"} |-> GSlice(<<GStr("b")>>)]),
      Tags |-> GSlice(<<GStr("a")>>)])}

RECURSIVE GoodInst(_)
\* the value of field f in the smallest instance with every required field
\* set
goodField(f) ==
  IF ~f.required THEN ZeroOf(f.type)
  ELSE CASE f.type = "ptr" -> GoodInst(f.elem)
         [] f.type = "ptrslice" -> GSlice(<<GoodInst(f.elem)>>)
         [] f.type = "string" -> GStr("a")
         [] f.type = "int" -> GInt(1)
         [] f.type = "bool" -> GBool(TRUE)

\* the fields of the smallest instance for the field table fs
goodFields(fs) == [n \in FieldNames(fs) |-> goodField(FieldByName(fs, n))]

\* the smallest instance of T with every required field set
GoodInst(T) ==
  IF T = "PropertyBag" THEN Zero(T)
  ELSE GStruct(T, goodFields(Struct(T)))

\* Go values a field f is assigned: the nested instances, the valid ones and
\* new(T), whose required fields are unset
GoSamples(f) ==
  CASE f.type = "ptr" ->
         IF f.elem = "PropertyBag" THEN Bags \ {Zero("PropertyBag")}
         ELSE {Zero(f.elem)} \cup (IF f.required THEN {GNil} ELSE {GoodInst(f.elem)})
    [] f.type = "ptrslice" ->
         {GSlice(<<GoodInst(f.elem), Zero(f.elem)>>)}
         \cup (IF f.required THEN {GNil, GSlice(<<>>)} ELSE {})
    [] f.type = "ptrmap" -> {GMap([k \in {"md5"} |-> Zero(f.elem)])}
    [] OTHER -> {}

\* the instances made from `good` by assigning one field of the field
\* table fs
constructedOf(fs, good) ==
  UNION {{[good EXCEPT !.val[fs[i].name] = v] : v \in GoSamples(fs[i])} : i \in 1..Len(fs)}

\* the instances of T built by assignment
Constructed(T) ==
  IF T = "PropertyBag" THEN Bags
  ELSE {Zero(T), GoodInst(T)} \cup constructedOf(Struct(T), GoodInst(T))

(***************************************************************************)
(* The state machine: one instance of one struct type, the document at     *)
(* hand, and the calls made on them.                                       *)
(***************************************************************************)
VARIABLES
  typ,      \* the struct type of the instance
  doc,      \* the wire document at hand, or NoBytes
  strct,    \* the instance
  out,      \* the text the last MarshalJSON returned, or NoBytes
  err,      \* the error the last call returned
  call,     \* the last call: its op and the text it decoded
  before,   \* the target of the last call as it was when the call began
  source,   \* the instance the last MarshalJSON encoded
  origin,   \* the text the instance was decoded from, when it is the result
            \* of a successful decode into a new(T); else NoBytes
  calls,    \* number of calls made
  gor,      \* the calls of the goroutines that run side by side, each with
            \* its own receiver and text
  bufs      \* the bytes.Buffer of each call of MarshalJSON in progress

vars == <<typ, doc, strct, out, err, call, before, source, origin, calls, gor, bufs>>

\* most calls in one run
MaxCalls == 3

NoCall == [op |-> "none", data |-> NoBytes]

\* the picks the range loops of one call can make: the key visited first is
\* one of the document's keys or of the additional keys, or none of them
Picks ==
  LET top == IF doc.kind = "obj" THEN {unquote(doc.val[i][1]) : i \in 1..Len(doc.val)} ELSE {}
  IN [first : top \cup {""}, rev : {FALSE}] \cup [first : {""}, rev : {TRUE}]

\* the text at hand: what MarshalJSON last returned, else the document
InHand == IF out # NoBytes THEN out ELSE doc

Init ==
  /\ typ \in Entities
  /\ \/ doc \in Inputs(typ) /\ strct = Zero(typ)
     \/ doc = NoBytes /\ strct \in Constructed(typ)
     \/ /\ typ \in {"Address", "Artifact", "ArtifactChange", "PropertyBag"}
        /\ doc \in Inputs(typ)
        /\ strct = UnmarshalJSON(typ, Zero(typ), Earlier(Struct(typ)),
                                 [first |-> "", rev |-> FALSE]).inst
  /\ out = NoBytes
  /\ err = NoErr
  /\ call = NoCall
  /\ before = strct
  /\ source = GNil
  /\ origin = NoBytes
  /\ calls = 0
  /\ gor = <<>>
  /\ bufs = <<>>

\* the state a call of UnmarshalJSON on `target` leaves when it returns r
decoded(target, fresh, r) ==
  /\ strct' = r.inst
  /\ err' = r.err
  /\ before' = target
  /\ origin' = IF fresh /\ r.err = NoErr THEN InHand ELSE NoBytes

\* UnmarshalJSON that begins with *strct = T{}
decodeIntoNew(target, fresh, rng) ==
  decoded(target, fresh, UnmarshalJSON(typ, Zero(typ), InHand, rng))

\* target.UnmarshalJSON(b) of the text at hand
decodeInto(target, fresh, rng) ==
  decoded(target, fresh, UnmarshalJSON(typ, target, InHand, rng))

\* strct.UnmarshalJSON(b) of the text at hand, on a new(T) or on the instance
\* when it holds something
Decode(fresh, rng) ==
  /\ calls < MaxCalls
  /\ InHand # NoBytes
  /\ fresh \/ strct # Zero(typ)
  /\ decodeInto(IF fresh THEN Zero(typ) ELSE strct, fresh, rng)
  /\ call' = [op |-> "decode", data |-> InHand]
  /\ calls' = calls + 1
  /\ UNCHANGED <<typ, doc, out, source, gor, bufs>>

\* MarshalJSON that hands its receiver over: the receiver is a new(T) when
\* the call returns
encodedConsuming(r) ==
  /\ out' = r.out
  /\ err' = r.err
  /\ strct' = Zero(typ)

\* the state a call of MarshalJSON leaves when it returns r: the call reads
\* the fields of its receiver and assigns none
encoded(r) ==
  /\ out' = r.out
  /\ err' = r.err
  /\ strct' = strct

\* strct.MarshalJSON()
Encode(rng) ==
  /\ calls < MaxCalls
  /\ encoded(MarshalJSON(typ, strct, rng))
  /\ source' = strct
  /\ before' = strct
  /\ call' = [op |-> "encode", data |-> NoBytes]
  /\ calls' = calls + 1
  /\ UNCHANGED <<typ, doc, origin, gor, bufs>>

Next ==
  \/ \E fresh \in BOOLEAN, rng \in Picks : Decode(fresh, rng)
  \/ \E rng \in [first : {""}, rev : BOOLEAN] : Encode(rng)

Spec == Init /\ [][Next]_vars

(***************************************************************************)
(* Calls side by side: two goroutines, each calling UnmarshalJSON or       *)
(* MarshalJSON on a receiver of its own, one iteration of the loop or one  *)
(* field block at a time.                                                  *)
(***************************************************************************)
Goroutines == {1, 2}

\* the struct types of the calls side by side
ConcTypes == {"ArtifactChange", "Tool", "SARIF"}

\* a goroutine that has not called yet
Idle ==
  [pc |-> "idle", op |-> "none", typ |-> "", input |-> NoBytes, start |-> GNil,
   inst |-> GNil, steps |-> <<>>, i |-> 1, rng |-> [first |-> "", rev |-> FALSE],
   err |-> NoErr, out |-> NoBytes, mixed |-> FALSE]

\* one buffer of the package, written to by every call
bufShared(g) == 1

\* the buffer the MarshalJSON call of goroutine g writes to: its local
\* `buf := bytes.NewBuffer(make([]byte, 0))`
bufOf(g) == g

\* whether a goroutine other than g is in the middle of a call
othersBusy(g) == \E h \in Goroutines \ {g} : gor[h].pc = "run"

\* the call of UnmarshalJSON(b) on `target` as it stands when
\* json.Unmarshal(b, &jsonMap) has returned
beginDecode(T, target, b, rng) ==
  [Idle EXCEPT
     !.op = "decode", !.typ = T, !.input = b, !.start = target, !.inst = target,
     !.rng = rng,
     !.pc = IF checkValid(b) /\ b.kind \in {"obj", "null"} THEN "run" ELSE "done",
     !.err = IF ~checkValid(b) THEN Err("syntax", "")
             ELSE IF b.kind \notin {"obj", "null"} THEN Err("malformed", "")
             ELSE NoErr,
     !.steps = IF checkValid(b) /\ b.kind = "obj"
               THEN RangeOrder(distinctKeys(b.val), rng) ELSE <<>>]

\* the call of MarshalJSON on `target` as it stands before its first field
beginEncode(T, target, fs, rng) ==
  [Idle EXCEPT
     !.op = "encode", !.typ = T, !.start = target, !.inst = target, !.rng = rng,
     !.pc = "run", !.steps = [i \in 1..Len(fs) |-> fs[i].key] \o <<>>]

\* goroutine g calls UnmarshalJSON on a new(T)
CallDecode(g) ==
  /\ gor[g].pc = "idle"
  /\ \E T \in ConcTypes, rev \in BOOLEAN :
       \E b \in {Good(T), Broken(T), DeepBroken(T)}
                \cup (IF T = "SARIF" THEN {MinimalDocument} ELSE {}) :
         gor' = [gor EXCEPT ![g] = beginDecode(T, Zero(T), b, [first |-> "", rev |-> rev])]
  /\ UNCHANGED <<typ, doc, strct, out, err, call, before, source, origin, calls, bufs>>

\* goroutine g calls MarshalJSON on an instance of its own
CallEncode(g) ==
  /\ gor[g].pc = "idle"
  /\ \E T \in ConcTypes, rev \in BOOLEAN :
       \E x \in {GoodInst(T), Zero(T)} :
         gor' = [gor EXCEPT ![g] = beginEncode(T, x, Struct(T), [first |-> "", rev |-> rev])]
  /\ bufs' = [bufs EXCEPT ![bufOf(g)] = <<>>]
  /\ UNCHANGED <<typ, doc, strct, out, err, call, before, source, origin, calls>>

\* what one iteration of the range loop makes of the key k
keyResult(fs, target, m, k, rng) ==
  IF \E j \in 1..Len(fs) : fs[j].key = k
  THEN unmarshalField(fs[CHOOSE j \in 1..Len(fs) : fs[j].key = k], rawOf(m, k),
                      target.val[fs[CHOOSE j \in 1..Len(fs) : fs[j].key = k].name], rng)
  ELSE additionalProperty(target, k, rawOf(m, k), rng)

\* the call c after the iteration of its range loop for the key k gave res
afterKey(c, fs, k, res, busy) ==
  [c EXCEPT !.inst = loopResult(fs, c.inst, <<k>>, <<res>>).inst,
            !.err = res.err,
            !.pc = IF res.err # NoErr THEN "done" ELSE "run",
            !.i = c.i + 1,
            !.mixed = c.mixed \/ busy]

\* one iteration of the range loop of the UnmarshalJSON call of goroutine g
StepDecode(g) ==
  /\ gor[g].pc = "run"
  /\ gor[g].op = "decode"
  /\ gor[g].i <= Len(gor[g].steps)
  /\ gor' = [gor EXCEPT ![g] =
               afterKey(gor[g], Struct(gor[g].typ), gor[g].steps[gor[g].i],
                        keyResult(Struct(gor[g].typ), gor[g].inst, gor[g].input.val,
                                  gor[g].steps[gor[g].i], gor[g].rng),
                        othersBusy(g))]
  /\ UNCHANGED <<typ, doc, strct, out, err, call, before, source, origin, calls, bufs>>

\* the checks after the loop, and the return, of the UnmarshalJSON call of
\* goroutine g
ReturnDecode(g) ==
  /\ gor[g].pc = "run"
  /\ gor[g].op = "decode"
  /\ gor[g].i > Len(gor[g].steps)
  /\ gor' = [gor EXCEPT ![g] =
               [gor[g] EXCEPT
                  !.pc = "done",
                  !.err = checkReceived(Struct(gor[g].typ),
                                        {gor[g].steps[i] : i \in 1..Len(gor[g].steps)})]]
  /\ UNCHANGED <<typ, doc, strct, out, err, call, before, source, origin, calls, bufs>>

\* the call c after the block of one field gave r
afterField(c, r, busy) ==
  [c EXCEPT !.err = r.err,
            !.pc = IF r.err # NoErr THEN "done" ELSE "run",
            !.i = c.i + 1,
            !.mixed = c.mixed \/ busy]

\* the buffers after the block of the field with key k of goroutine g gave r
afterWrite(g, k, r) ==
  IF r.err # NoErr THEN bufs
  ELSE [bufs EXCEPT ![bufOf(g)] = Append(bufs[bufOf(g)], <<k, r.out>>)]

\* the block of one field in the MarshalJSON call of goroutine g that found
\* r: the call and the buffer after it
fieldBlock(g, k, r) ==
  /\ gor' = [gor EXCEPT ![g] = afterField(gor[g], r, othersBusy(g))]
  /\ bufs' = afterWrite(g, k, r)

\* the block of one field in the MarshalJSON call of goroutine g
StepEncode(g) ==
  /\ gor[g].pc = "run"
  /\ gor[g].op = "encode"
  /\ gor[g].i <= Len(gor[g].steps)
  /\ fieldBlock(g, gor[g].steps[gor[g].i],
                marshalField(Struct(gor[g].typ)[gor[g].i],
                             gor[g].inst.val[Struct(gor[g].typ)[gor[g].i].name],
                             gor[g].rng))
  /\ UNCHANGED <<typ, doc, strct, out, err, call, before, source, origin, calls>>

\* `rv := buf.Bytes(); return rv, nil` of the MarshalJSON call of goroutine g
ReturnEncode(g) ==
  /\ gor[g].pc = "run"
  /\ gor[g].op = "encode"
  /\ gor[g].i > Len(gor[g].steps)
  /\ gor' = [gor EXCEPT ![g] = [gor[g] EXCEPT !.pc = "done", !.out = JObj(bufs[bufOf(g)])]]
  /\ UNCHANGED <<typ, doc, strct, out, err, call, before, source, origin, calls, bufs>>

InitConc ==
  /\ typ = "SARIF"
  /\ doc = NoBytes
  /\ strct = GNil
  /\ out = NoBytes
  /\ err = NoErr
  /\ call = NoCall
  /\ before = GNil
  /\ source = GNil
  /\ origin = NoBytes
  /\ calls = 0
  /\ gor = [g \in Goroutines |-> Idle]
  /\ bufs = [g \in Goroutines |-> <<>>]

NextConc ==
  \E g \in Goroutines :
    \/ CallDecode(g)
    \/ CallEncode(g)
    \/ StepDecode(g)
    \/ ReturnDecode(g)
    \/ StepEncode(g)
    \/ ReturnEncode(g)

SpecConc == InitConc /\ [][NextConc]_vars

(***************************************************************************)
(* Vocabulary of the properties: what a document holds, and which          *)
(* documents are valid for a struct type.                                  *)
(***************************************************************************)
\* the keys a document's top level holds
KeysOf(raw) ==
  IF raw.kind = "obj" THEN {unquote(raw.val[i][1]) : i \in 1..Len(raw.val)} ELSE {}

\* the wire keys T declares, and those it requires
Declared(T) == {Struct(T)[i].key : i \in 1..Len(Struct(T))}

Required(T) == {Struct(T)[i].key : i \in {j \in 1..Len(Struct(T)) : Struct(T)[j].required}}

RECURSIVE Shaped(_, _, _)
\* raw is an object valid for T but for the required keys in `exempt`, which
\* it may lack: no key twice, every key declared (any key in a PropertyBag),
\* every value of the JSON type of its field and not null, every nested
\* object valid for its own type, every other required key there
Shaped(T, raw, exempt) ==
  LET fs == Struct(T)
      ok(f, v) ==
        CASE f.type \in {"int", "float64"} -> v.kind = "num"
          [] f.type = "string" -> v.kind = "str" /\ validString(v.val)
          [] f.type = "bool" -> v.kind = "bool"
          [] f.type = "ptr" -> Shaped(f.elem, v, {})
          [] f.type = "ptrslice" ->
               v.kind = "arr" /\ \A i \in 1..Len(v.val) : Shaped(f.elem, v.val[i], {})
          [] f.type = "strslice" ->
               v.kind = "arr" /\ \A i \in 1..Len(v.val) :
                                   v.val[i].kind = "str" /\ validString(v.val[i].val)
          [] f.type = "strmap" ->
               v.kind = "obj" /\ \A i \in 1..Len(v.val) :
                                   /\ validString(v.val[i][1])
                                   /\ v.val[i][2].kind = "str"
                                   /\ validString(v.val[i][2].val)
          [] f.type = "ptrmap" ->
               v.kind = "obj" /\ \A i \in 1..Len(v.val) :
                                   /\ validString(v.val[i][1])
                                   /\ Shaped(f.elem, v.val[i][2], {})
  IN /\ raw.kind = "obj"
     /\ \A i, j \in 1..Len(raw.val) : raw.val[i][1] = raw.val[j][1] => i = j
     /\ \A i \in 1..Len(raw.val) :
          LET hit == {j \in 1..Len(fs) : fs[j].key = raw.val[i][1]}
          IN IF hit = {}
             THEN T = "PropertyBag" /\ validString(raw.val[i][1]) /\ checkValid(raw.val[i][2])
             ELSE \A j \in hit : ok(fs[j], raw.val[i][2])
     /\ \A k \in Required(T) \ exempt : k \in KeysOf(raw)

\* raw is a valid object for T
WellFormed(T, raw) == Shaped(T, raw, {})

(***************************************************************************)
(* Properties                                                              *)
(***************************************************************************)
\* C1: for every required field f of every struct type, decoding an object
\* that omits key f and is valid otherwise fails with the required-field
\* error naming f, and decoding an object that has f and is valid succeeds.
C1_RequiredOnDecode ==
  call.op = "decode" =>
    /\ \A k \in Required(typ) :
         (k \notin KeysOf(call.data) /\ Shaped(typ, call.data, {k}))
           => err = Err("missing", k)
    /\ WellFormed(typ, call.data) => err = NoErr

\* an ArtifactChange without its "replacements" has been decoded and rejected
C1_Witness ==
  /\ typ = "ArtifactChange"
  /\ call.op = "decode"
  /\ KeysOf(call.data) = {"artifactLocation"}
  /\ Shaped(typ, call.data, {"replacements"})
  /\ err = Err("missing", "replacements")

\* C2: for every struct type but PropertyBag, decoding an object that holds
\* a key the struct does not declare, and is valid without it, fails with the
\* additional-property error naming an undeclared key; the object without
\* that key decodes with no error.
C2_UnknownKeyRejected ==
  (call.op = "decode" /\ typ # "PropertyBag" /\ call.data.kind = "obj") =>
    LET known == JObj(SelectSeq(call.data.val, LAMBDA p : p[1] \in Declared(typ)))
    IN WellFormed(typ, known) =>
         IF known = call.data
         THEN err = NoErr
         ELSE err.kind = "unrecognized" /\ err.name \in KeysOf(call.data) \ Declared(typ)

\* an Address with the undeclared key has been decoded and rejected
C2_Witness ==
  /\ typ = "Address"
  /\ call.op = "decode"
  /\ UnknownKey \in KeysOf(call.data)
  /\ WellFormed(typ, JObj(Without(call.data.val, UnknownKey)))
  /\ err = Err("unrecognized", UnknownKey)
\* C3: decoding a PropertyBag never fails on an unknown key: "tags" is read
\* into Tags, every other key is stored with its value in
\* AdditionalProperties, and encoding the decoded bag gives a JSON text that
\* holds "tags" and every key of the decoded object with its value.
C3_BagOpen ==
  typ = "PropertyBag" =>
    /\ (call.op = "decode" /\ WellFormed(typ, call.data)) =>
         /\ err = NoErr
         /\ \A k \in KeysOf(call.data) \ {"tags"} :
              /\ strct.val.AdditionalProperties # GNil
              /\ k \in DOMAIN strct.val.AdditionalProperties.val
              /\ strct.val.AdditionalProperties.val[k] = unmarshalAny(rawOf(call.data.val, k))
         /\ "tags" \in KeysOf(call.data) =>
              LET tags == rawOf(call.data.val, "tags").val
              IN strct.val.Tags = GSlice([i \in 1..Len(tags) |-> GStr(unquote(tags[i].val))])
    /\ (call.op = "encode" /\ origin # NoBytes) =>
         /\ err = NoErr
         /\ checkValid(out)
         /\ "tags" \in KeysOf(out)
         /\ \A k \in KeysOf(origin) :
              k \in KeysOf(out) /\ rawOf(out.val, k) = rawOf(origin.val, k)

RECURSIVE ValidInst(_, _)
\* x is an instance of T in which every required nested entity is set, at
\* every depth
ValidInst(T, x) ==
  /\ x.kind = T
  /\ \A i \in 1..Len(Struct(T)) :
       LET f == Struct(T)[i]
           v == x.val[f.name]
       IN CASE f.type = "ptr" ->
                 /\ f.required => v # GNil
                 /\ v # GNil => ValidInst(f.elem, v)
            [] f.type = "ptrslice" ->
                 v # GNil => \A j \in 1..Len(v.val) :
                               v.val[j] # GNil => ValidInst(f.elem, v.val[j])
            [] f.type = "ptrmap" ->
                 v # GNil => \A k \in DOMAIN v.val :
                               v.val[k] # GNil => ValidInst(f.elem, v.val[k])
            [] OTHER -> TRUE

\* C4: for every struct type and every instance x in which every required
\* nested entity is set, encoding x succeeds, and decoding the text into a
\* new instance succeeds and gives an instance equal to x.
C4_RoundTrip ==
  /\ (call.op = "encode" /\ ValidInst(typ, source)) => err = NoErr
  /\ ( /\ call.op = "decode"
       /\ out # NoBytes
       /\ call.data = out
       /\ before = Zero(typ)
       /\ ValidInst(typ, source) ) => (err = NoErr /\ strct = source)

\* C5: encoding an instance in which a required field is nil fails with the
\* required-field error naming such a field, whatever the type of the field.
C5_EncodeRejectsAbsent ==
  call.op = "encode" =>
    LET absent == {i \in 1..Len(Struct(typ)) :
                     Struct(typ)[i].required /\ source.val[Struct(typ)[i].name] = GNil}
    IN absent # {} =>
         /\ err.kind = "missing"
         /\ err.name \in {Struct(typ)[i].key : i \in absent}

\* C6: after a successful decode of an object, here one that holds its
\* required keys and no other, encoding the instance succeeds, and the text
\* holds every required key with a value that is not null and, for a
\* number, string or boolean, is the value the object held.
C6_RequiredSurvive ==
  (call.op = "encode" /\ origin.kind = "obj" /\ KeysOf(origin) = Required(typ)) =>
    /\ err = NoErr
    /\ \A k \in Required(typ) :
         /\ k \in KeysOf(out)
         /\ rawOf(out.val, k) # JNull
         /\ rawOf(origin.val, k).kind \in {"num", "str", "bool"}
              => rawOf(out.val, k) = rawOf(origin.val, k)

\* C7: decoding a SARIF object whose key "$schema" holds a string stores the
\* string in Schema, and the text of an encoded SARIF holds Schema under the
\* key "$schema", once, and holds no key "schema".
C7_SchemaAlias ==
  typ = "SARIF" =>
    /\ ( /\ call.op = "decode"
         /\ err = NoErr
         /\ "$schema" \in KeysOf(call.data)
         /\ rawOf(call.data.val, "$schema").kind = "str" )
         => strct.val.Schema = GStr(unquote(rawOf(call.data.val, "$schema").val))
    /\ (call.op = "encode" /\ err = NoErr) =>
         /\ "schema" \notin KeysOf(out)
         /\ Cardinality({i \in 1..Len(out.val) : out.val[i][1] = "$schema"}) = 1
         /\ rawOf(out.val, "$schema") = JStr(encodeString(source.val.Schema.val))

\* a SARIF whose Schema is set has been encoded
C7_Witness ==
  /\ typ = "SARIF"
  /\ call.op = "encode"
  /\ err = NoErr
  /\ source.val.Schema = GStr("b")
  /\ rawOf(out.val, "$schema") = JStr("b")
  /\ origin # NoBytes
  /\ rawOf(origin.val, "$schema") = JStr("b")

\* the document holds, under a declared key, a nested object that the decode
\* of its own struct type rejects
NestedRejected(T, raw) ==
  /\ raw.kind = "obj"
  /\ \E k \in KeysOf(raw) \cap Declared(T) :
       LET f == Struct(T)[CHOOSE i \in 1..Len(Struct(T)) : Struct(T)[i].key = k]
           v == rawOf(raw.val, k)
           rejected(w) ==
             /\ w.kind # "null"
             /\ UnmarshalJSON(f.elem, Zero(f.elem), w, [first |-> "", rev |-> FALSE]).err # NoErr
       IN CASE f.type = "ptr" -> rejected(v)
            [] f.type = "ptrslice" ->
                 v.kind = "arr" /\ \E i \in 1..Len(v.val) : rejected(v.val[i])
            [] f.type = "ptrmap" ->
                 v.kind = "obj" /\ \E i \in 1..Len(v.val) : rejected(v.val[i][2])
            [] OTHER -> FALSE

\* C8: when the decode of a nested object fails, at any depth, the decode of
\* the document that holds it fails.
C8_NestedFailurePropagates ==
  (call.op = "decode" /\ NestedRejected(typ, call.data)) => err # NoErr

\* a SARIF whose run's tool.driver lacks "name" has been decoded and rejected
C8_Witness ==
  /\ typ = "SARIF"
  /\ call.op = "decode"
  /\ call.data = DeepBroken("SARIF")
  /\ "runs" \in KeysOf(call.data)
  /\ "version" \in KeysOf(call.data)
  /\ NestedRejected(typ, call.data)
  /\ err = Err("missing", "name")

\* x is a SARIF of version 2.1.0 with one Run whose Tool.Driver.Name is
\* Analyzer
IsMinimal(x) ==
  /\ x.kind = "SARIF"
  /\ x.val.Version = GStr("2.1.0")
  /\ x.val.Runs.kind = "slice"
  /\ Len(x.val.Runs.val) = 1
  /\ x.val.Runs.val[1].kind = "Run"
  /\ x.val.Runs.val[1].val.Tool.kind = "Tool"
  /\ x.val.Runs.val[1].val.Tool.val.Driver.kind = "ToolComponent"
  /\ x.val.Runs.val[1].val.Tool.val.Driver.val.Name = GStr("Analyzer")

\* C9: the minimal document decodes into a SARIF with one Run whose
\* Tool.Driver.Name is Analyzer; encoding that instance succeeds, and decoding
\* the text gives the same instance.
C9_MinimalDocument ==
  typ = "SARIF" =>
    /\ (call.op = "decode" /\ call.data = MinimalDocument /\ before = Zero(typ))
         => (err = NoErr /\ IsMinimal(strct))
    /\ (call.op = "encode" /\ IsMinimal(source)) => err = NoErr
    /\ ( /\ call.op = "decode"
         /\ out # NoBytes
         /\ call.data = out
         /\ before = Zero(typ)
         /\ IsMinimal(source) ) => (err = NoErr /\ strct = source)

\* the minimal document has been decoded, encoded and decoded again
C9_Witness ==
  /\ typ = "SARIF"
  /\ doc = MinimalDocument
  /\ calls = 3
  /\ call.op = "decode"
  /\ call.data = out
  /\ IsMinimal(source)
  /\ strct = source
  /\ err = NoErr

\* what json.Marshal writes for the zero value of a field of Go type `type`
ZeroText(type) ==
  CASE type \in {"int", "float64"} -> JNum(0)
    [] type = "string" -> JStr("")
    [] type = "bool" -> JBool(FALSE)
    [] OTHER -> JNull

RECURSIVE KeyOrder(_)
\* the keys of a JSON text in the order written, at every depth
KeyOrder(raw) ==
  CASE raw.kind = "obj" ->
         [i \in 1..Len(raw.val) |-> <<raw.val[i][1], KeyOrder(raw.val[i][2])>>] \o <<>>
    [] raw.kind = "arr" -> [i \in 1..Len(raw.val) |-> KeyOrder(raw.val[i])] \o <<>>
    [] OTHER -> <<>>

\* C11: two successive encodings of the instance, not modified in between,
\* write their keys in the same order, at every depth, for every struct type
\* and for a PropertyBag with two or more additional keys.
C11_OrderStable ==
  [][(call.op = "encode" /\ call'.op = "encode" /\ err = NoErr /\ err' = NoErr)
       => KeyOrder(out') = KeyOrder(out)]_vars

\* C12: the text of an encoded PropertyBag holds the keys the bag holds and
\* no other: "tags" when Tags is set, and the keys of AdditionalProperties.
C12_BagOnlyPresent ==
  (typ = "PropertyBag" /\ call.op = "encode" /\ err = NoErr) =>
    KeysOf(out) = (IF source.val.Tags = GNil THEN {} ELSE {"tags"})
                  \cup (IF source.val.AdditionalProperties = GNil THEN {}
                        ELSE DOMAIN source.val.AdditionalProperties.val)

\* C13: a decode that returns an error leaves its target, and every nested
\* instance, as they were before the call.
C13_NoPartialResult ==
  (call.op = "decode" /\ err # NoErr) => strct = before

\* C14: an error that the UnmarshalJSON or the MarshalJSON of a nested
\* instance raised (a required field, an additional property, a value of the
\* wrong type) is returned by the outermost call as it is, with no wrapper
\* around it.
C14_ErrorsUnwrapped ==
  ( /\ call.op \in {"decode", "encode"}
    /\ err.kind \in {"missing", "unrecognized", "malformed"} ) => err.wraps = 0

\* longest member list of which every reordering is tried
MaxReorder == 4

\* the member lists that hold the members of m in another order: every
\* order of a list of at most MaxReorder members; of a longer one, those
\* with two neighbours exchanged, and the reverse
Reordered(m) ==
  IF Len(m) <= MaxReorder
  THEN {[i \in 1..Len(m) |-> m[p[i]]] \o <<>> : p \in Permutations(1..Len(m))}
  ELSE {[i \in 1..Len(m) |-> IF i = a THEN m[a + 1] ELSE IF i = a + 1 THEN m[a] ELSE m[i]] \o <<>>
          : a \in 1..(Len(m) - 1)}
       \cup {Reverse(m)}

\* decoding the object raw into the target of the last call, the range loop
\* taking the keys as they are written, gives the verdict of that call and,
\* when it succeeds, its instance
SameOutcome(raw) ==
  LET r == UnmarshalJSON(typ, before, raw, [first |-> "", rev |-> FALSE])
  IN /\ (r.err = NoErr) <=> (err = NoErr)
     /\ err = NoErr => r.inst = strct

\* no key occurs twice in the object raw
DistinctKeys(raw) ==
  \A i, j \in 1..Len(raw.val) : raw.val[i][1] = raw.val[j][1] => i = j

\* C15 as stated: for any wire object, every reordering of its members
\* decodes with the same verdict and, on success, into the same instance.
C15_AnyObjectOrderFree ==
  (call.op = "decode" /\ call.data.kind = "obj") =>
    \A m \in Reordered(call.data.val) : SameOutcome(JObj(m))

\* C15: for any wire object in which no key occurs twice, every reordering
\* of its members decodes with the same verdict and, on success, into the
\* same instance.
C15_OrderFree ==
  (call.op = "decode" /\ call.data.kind = "obj" /\ DistinctKeys(call.data)) =>
    \A m \in Reordered(call.data.val) : SameOutcome(JObj(m))

\* the minimal document, which holds two keys, has been decoded, and so has
\* its reordering
C15_Witness ==
  /\ typ = "SARIF"
  /\ call.op = "decode"
  /\ call.data = MinimalDocument
  /\ Cardinality(Reordered(call.data.val)) = 2
  /\ err = NoErr
  /\ SameOutcome(JObj(<<call.data.val[2], call.data.val[1]>>))

\* the object raw with, of every repeated key, the last occurrence only
LastOnly(raw) ==
  JObj(SelectSeq([i \in 1..Len(raw.val) |-> <<i, raw.val[i]>>] \o <<>>,
                 LAMBDA p : \A j \in (p[1] + 1)..Len(raw.val) : raw.val[j][1] # p[2][1]))

\* the members of a list of indexed members
Members(raw) == JObj([i \in 1..Len(raw.val) |-> raw.val[i][2]] \o <<>>)

\* C16: when an object repeats a key, decode uses the value of the last
\* occurrence only: the outcome is that of the object without the earlier
\* occurrences (the field holds the last value), an earlier value of the
\* wrong type causes no error, and a repeated required key is received.
C16_LastOccurrenceWins ==
  (call.op = "decode" /\ call.data.kind = "obj" /\ ~DistinctKeys(call.data)) =>
    /\ SameOutcome(Members(LastOnly(call.data)))
    /\ WellFormed(typ, Members(LastOnly(call.data))) => err = NoErr
    /\ err.kind = "missing" => err.name \notin KeysOf(call.data)

\* an ArtifactChange whose "replacements" comes twice, first with a string
\* and last with an array, has been decoded
C16_Witness ==
  /\ typ = "ArtifactChange"
  /\ call.op = "decode"
  /\ before = Zero(typ)
  /\ Len(call.data.val) = 3
  /\ call.data.val[1] = <<"replacements", JStr("x")>>
  /\ call.data.val[3][1] = "replacements"
  /\ call.data.val[3][2].kind = "arr"
  /\ err = NoErr
  /\ strct.val.Replacements.kind = "slice"
  /\ Len(strct.val.Replacements.val) = Len(call.data.val[3][2].val)

\* C17: decoding an object into a new instance leaves every optional field
\* whose key the object lacks at its zero value, never fails with the
\* required-field error of a key that is optional or present, and accepts
\* the empty object for every struct type that requires no field.
C17_OptionalAbsent ==
  (call.op = "decode" /\ before = Zero(typ) /\ call.data.kind = "obj") =>
    /\ \A i \in 1..Len(Struct(typ)) :
         (~Struct(typ)[i].required /\ Struct(typ)[i].key \notin KeysOf(call.data))
           => strct.val[Struct(typ)[i].name] = ZeroOf(Struct(typ)[i].type)
    /\ (err.kind = "missing" /\ ~NestedRejected(typ, call.data))
         => err.name \in Required(typ) \ KeysOf(call.data)
    /\ (Required(typ) = {} /\ call.data = JObj(<<>>)) => err = NoErr

\* the empty object has been decoded into a new(Address), which requires no
\* field
C17_Witness ==
  /\ typ = "Address"
  /\ Required(typ) = {}
  /\ call.op = "decode"
  /\ call.data = JObj(<<>>)
  /\ before = Zero(typ)
  /\ err = NoErr
  /\ strct = Zero(typ)

\* C19: a root object that holds "version" and "runs", the latter an empty
\* array, decodes into a SARIF with zero runs; the object with "version"
\* only fails with the required-field error of "runs".
C19_RunsMayBeEmpty ==
  ( /\ typ = "SARIF"
    /\ call.op = "decode"
    /\ before = Zero(typ)
    /\ call.data.kind = "obj"
    /\ DistinctKeys(call.data)
    /\ "version" \in KeysOf(call.data)
    /\ rawOf(call.data.val, "version").kind = "str" ) =>
      /\ (KeysOf(call.data) = {"version", "runs"} /\ rawOf(call.data.val, "runs") = JArr(<<>>))
           => (err = NoErr /\ strct.val.Runs = GSlice(<<>>))
      /\ KeysOf(call.data) = {"version"} => err = Err("missing", "runs")

\* a root object whose "runs" is the empty array has been decoded
C19_Witness ==
  /\ typ = "SARIF"
  /\ call.op = "decode"
  /\ before = Zero(typ)
  /\ KeysOf(call.data) = {"version", "runs"}
  /\ rawOf(call.data.val, "runs") = JArr(<<>>)
  /\ err = NoErr
  /\ strct.val.Runs = GSlice(<<>>)
  /\ strct.val.Version.kind = "string"

\* C20: decoding an object of a struct type other than PropertyBag that
\* holds an undeclared key and lacks a required key, its declared values
\* valid, fails with the additional-property error of an undeclared key,
\* never with the required-field error.
C20_UnknownBeforeRequired ==
  ( /\ call.op = "decode"
    /\ typ # "PropertyBag"
    /\ call.data.kind = "obj"
    /\ KeysOf(call.data) \ Declared(typ) # {}
    /\ Required(typ) \ KeysOf(call.data) # {}
    /\ Shaped(typ, JObj(SelectSeq(call.data.val, LAMBDA p : p[1] \in Declared(typ))),
              Required(typ)) ) =>
      /\ err.kind = "unrecognized"
      /\ err.name \in KeysOf(call.data) \ Declared(typ)

\* an ArtifactChange with the undeclared key and without "replacements" has
\* been decoded and rejected for the undeclared key
C20_Witness ==
  /\ typ = "ArtifactChange"
  /\ call.op = "decode"
  /\ KeysOf(call.data) = {"artifactLocation", UnknownKey}
  /\ "replacements" \in Required(typ)
  /\ WellFormed("ArtifactLocation", rawOf(call.data.val, "artifactLocation"))
  /\ err = Err("unrecognized", UnknownKey)

\* C18: when goroutines call decode and encode side by side, each on a
\* receiver and a text of its own, every call returns what it returns when
\* it runs alone and leaves its receiver as it does then.
C18_IndependentCalls ==
  \A g \in Goroutines :
    gor[g].pc = "done" =>
      IF gor[g].op = "decode"
      THEN LET r == UnmarshalJSON(gor[g].typ, gor[g].start, gor[g].input, gor[g].rng)
           IN gor[g].err = r.err /\ gor[g].inst = r.inst
      ELSE LET r == MarshalJSON(gor[g].typ, gor[g].start, gor[g].rng)
           IN /\ gor[g].err = r.err
              /\ gor[g].out = r.out
              /\ gor[g].inst = gor[g].start

\* a decode and an encode, each with steps taken while the other was in
\* progress, have both returned with no error
C18_Witness ==
  /\ gor[1].pc = "done" /\ gor[2].pc = "done"
  /\ gor[1].mixed /\ gor[2].mixed
  /\ gor[1].op = "decode" /\ gor[1].err = NoErr /\ gor[1].inst # gor[1].start
  /\ gor[2].op = "encode" /\ gor[2].err = NoErr /\ gor[2].out.kind = "obj"

\* C21: encoding fails only on an absent required field: an instance in
\* which every required nested entity is set, at every depth, encodes with
\* no error, and when the encoding fails some required nested entity of the
\* instance is nil.
C21_EncodeFailsOnlyOnAbsent ==
  call.op = "encode" =>
    /\ ValidInst(typ, source) => (err = NoErr /\ out # NoBytes)
    /\ err # NoErr => ~ValidInst(typ, source)

RECURSIVE Parts(_, _)
\* the instance x of T and the instances nested in it, at every depth, each
\* with its struct type
Parts(T, x) ==
  {<<T, x>>} \cup
  UNION {LET f == Struct(T)[i]
             v == x.val[f.name]
         IN IF v = GNil THEN {}
            ELSE CASE f.type = "ptr" -> Parts(f.elem, v)
                   [] f.type = "ptrslice" ->
                        UNION {IF v.val[j] = GNil THEN {} ELSE Parts(f.elem, v.val[j])
                                 : j \in 1..Len(v.val)}
                   [] f.type = "ptrmap" ->
                        UNION {IF v.val[k] = GNil THEN {} ELSE Parts(f.elem, v.val[k])
                                 : k \in DOMAIN v.val}
                   [] OTHER -> {}
           : i \in 1..Len(Struct(T))}

\* the MarshalJSON of some instance nested in x, or of x, returns an error
SomePartFails(T, x) ==
  \E p \in Parts(T, x) : MarshalJSON(p[1], p[2], [first |-> "", rev |-> FALSE]).err # NoErr

\* C22: when the encoding of an instance nested anywhere in the tree fails
\* (a Run of Runs whose Tool is nil, a Tool whose Driver is nil), the
\* encoding of the whole fails and returns no text.
C22_NestedEncodeFailurePropagates ==
  (call.op = "encode" /\ SomePartFails(typ, source)) => (err # NoErr /\ out = NoBytes)

\* a SARIF whose second Run has no Tool has been encoded and rejected
C22_Witness ==
  /\ typ = "SARIF"
  /\ call.op = "encode"
  /\ source.val.Runs # GNil
  /\ Len(source.val.Runs.val) = 2
  /\ source.val.Runs.val[2].val.Tool = GNil
  /\ MarshalJSON("SARIF", GoodInst("SARIF"), [first |-> "", rev |-> FALSE]).err = NoErr
  /\ err.kind = "missing"
  /\ err.name = "tool"
  /\ out = NoBytes

\* the kind of JSON value a field of Go type `type` takes
JsonKind(type) ==
  CASE type \in {"int", "float64"} -> "num"
    [] type = "string" -> "str"
    [] type = "bool" -> "bool"
    [] type \in {"ptrslice", "strslice"} -> "arr"
    [] OTHER -> "obj"

\* the declared keys of T under which the object raw holds, at the last
\* occurrence of the key, a value of another JSON type than the field takes
WrongTyped(T, raw) ==
  {k \in KeysOf(raw) \cap Declared(T) :
     /\ rawOf(raw.val, k).kind # "null"
     /\ rawOf(raw.val, k).kind #
          JsonKind(Struct(T)[CHOOSE i \in 1..Len(Struct(T)) : Struct(T)[i].key = k].type)}

\* C23: decoding an object that holds under a declared key a value of the
\* wrong JSON type (a string for an integer, an object for an array, a
\* number for a boolean) fails, with the malformed-value error when the
\* object is valid otherwise, and the field is not given a value made from
\* the wrong one: it keeps what it held (a nil pointer may hold a new(T)).
C23_WrongTypeRejected ==
  (call.op = "decode" /\ call.data.kind = "obj" /\ WrongTyped(typ, call.data) # {}) =>
    /\ err # NoErr
    /\ Shaped(typ,
              JObj(SelectSeq(Members(LastOnly(call.data)).val,
                             LAMBDA p : p[1] \notin WrongTyped(typ, call.data))),
              WrongTyped(typ, call.data))
         => err = Err("malformed", "")
    /\ \A i \in 1..Len(Struct(typ)) :
         Struct(typ)[i].key \in WrongTyped(typ, call.data) =>
           \/ strct.val[Struct(typ)[i].name] = before.val[Struct(typ)[i].name]
           \/ /\ Struct(typ)[i].type = "ptr"
              /\ before.val[Struct(typ)[i].name] = GNil
              /\ strct.val[Struct(typ)[i].name] = Zero(Struct(typ)[i].elem)

\* an Invocation whose "executionSuccessful" holds a number has been decoded
\* and rejected
C23_Witness ==
  /\ typ = "Invocation"
  /\ call.op = "decode"
  /\ call.data.kind = "obj"
  /\ WrongTyped(typ, call.data) = {"executionSuccessful"}
  /\ rawOf(call.data.val, "executionSuccessful") = JNum(5)
  /\ err = Err("malformed", "")
  /\ strct.val.ExecutionSuccessful = GBool(FALSE)

\* the wire keys of the fields that refer to a position or an identifier
\* in another sequence
ReferenceKeys == {"ruleIndex", "parentIndex", "runGraphIndex", "sourceNodeId", "targetNodeId"}

\* C24: decoding a valid object stores the integer under ruleIndex,
\* parentIndex, runGraphIndex and the string under sourceNodeId,
\* targetNodeId as they are written, with no error, whether or not they
\* name a position or an identifier that exists (a negative index, an index
\* or a node id when there is no sequence at all).
C24_ReferencesUnchecked ==
  (call.op = "decode" /\ WellFormed(typ, call.data)) =>
    /\ err = NoErr
    /\ \A i \in 1..Len(Struct(typ)) :
         Struct(typ)[i].key \in ReferenceKeys \cap KeysOf(call.data) =>
           strct.val[Struct(typ)[i].name] =
             IF Struct(typ)[i].type = "int"
             THEN GInt(rawOf(call.data.val, Struct(typ)[i].key).val)
             ELSE GStr(unquote(rawOf(call.data.val, Struct(typ)[i].key).val))

\* a Result whose ruleIndex is -1 has been decoded
C24_Witness ==
  /\ typ = "Result"
  /\ call.op = "decode"
  /\ WellFormed(typ, call.data)
  /\ "ruleIndex" \in KeysOf(call.data)
  /\ rawOf(call.data.val, "ruleIndex") = JNum(-1)
  /\ "rule" \notin KeysOf(call.data)
  /\ err = NoErr
  /\ strct.val.RuleIndex = GInt(-1)

RECURSIVE PlainNodes(_)
\* raw is a tree of Node objects that hold "id" and "children" only, "id" a
\* string where it is there
PlainNodes(raw) ==
  /\ raw.kind = "obj"
  /\ DistinctKeys(raw)
  /\ \A i \in 1..Len(raw.val) :
       \/ raw.val[i][1] = "id" /\ raw.val[i][2].kind = "str"
       \/ /\ raw.val[i][1] = "children"
          /\ raw.val[i][2].kind = "arr"
          /\ \A j \in 1..Len(raw.val[i][2].val) : PlainNodes(raw.val[i][2].val[j])

\* the children written in the Node object raw
ChildrenOf(raw) == IF "children" \in KeysOf(raw) THEN rawOf(raw.val, "children").val ELSE <<>>

RECURSIVE EveryNodeHasId(_)
\* every node of the tree raw holds "id"
EveryNodeHasId(raw) ==
  /\ "id" \in KeysOf(raw)
  /\ \A j \in 1..Len(ChildrenOf(raw)) : EveryNodeHasId(ChildrenOf(raw)[j])

RECURSIVE TextShape(_)
\* the tree raw as written: the id of each node and its children in order
TextShape(raw) ==
  <<rawOf(raw.val, "id").val,
    [j \in 1..Len(ChildrenOf(raw)) |-> TextShape(ChildrenOf(raw)[j])] \o <<>> >>

RECURSIVE InstShape(_)
\* the tree of the Node x: the Id of each node and its Children in order
InstShape(x) ==
  <<x.val.Id.val,
    IF x.val.Children = GNil THEN <<>>
    ELSE [j \in 1..Len(x.val.Children.val) |-> InstShape(x.val.Children.val[j])] \o <<>> >>

\* C25: a tree of Node objects in which some node, at any depth of
\* "children", lacks "id" fails the decode of the root with the
\* required-field error of id; a tree in which every node has "id" decodes
\* into Nodes of the same ids, the same shape and the same order of children.
C25_RequiredAtEveryDepth ==
  (typ = "Node" /\ call.op = "decode" /\ before = Zero(typ) /\ PlainNodes(call.data)) =>
    IF EveryNodeHasId(call.data)
    THEN err = NoErr /\ InstShape(strct) = TextShape(call.data)
    ELSE err = Err("missing", "id")

\* the tree of MaxDepth levels whose last leaf lacks "id" has been decoded
\* and rejected
C25_Witness ==
  /\ typ = "Node"
  /\ call.op = "decode"
  /\ before = Zero(typ)
  /\ call.data = NodeTree(MaxDepth, 1, "a")
  /\ EveryNodeHasId(NodeTree(MaxDepth, 0, "a"))
  /\ ~EveryNodeHasId(call.data)
  /\ err = Err("missing", "id")

\* C26: after a call of MarshalJSON, with or without an error, the instance
\* and every instance nested in it hold what they held when the call began.
C26_EncodeReadsOnly ==
  call.op = "encode" => (strct = source /\ strct = before)

\* a SARIF that holds a Run with no Tool has been encoded and rejected
C26_Witness ==
  /\ typ = "SARIF"
  /\ call.op = "encode"
  /\ err # NoErr
  /\ out = NoBytes
  /\ strct # Zero(typ)
  /\ strct.val.Runs # GNil
  /\ strct = before

\* the entries of a Go map value, none when it is nil
Entries(x) == IF x = GNil THEN EmptyMap ELSE x.val

\* the instance the text raw gives when it is decoded alone, into a new(T)
Alone(T, raw) == UnmarshalJSON(T, Zero(T), raw, [first |-> "", rev |-> FALSE]).inst

\* every field whose key the decoded object lacks holds what it held before
\* the call, and so does every additional property of a PropertyBag
AbsentKept ==
  /\ \A i \in 1..Len(Struct(typ)) :
       Struct(typ)[i].key \notin KeysOf(call.data) =>
         strct.val[Struct(typ)[i].name] = before.val[Struct(typ)[i].name]
  /\ typ = "PropertyBag" =>
       \A k \in DOMAIN Entries(before.val.AdditionalProperties) \ KeysOf(call.data) :
         /\ k \in DOMAIN Entries(strct.val.AdditionalProperties)
         /\ strct.val.AdditionalProperties.val[k] = before.val.AdditionalProperties.val[k]

\* the additional properties the decoded object names hold its values
AdditionalWritten ==
  typ = "PropertyBag" =>
    \A k \in KeysOf(call.data) \ {"tags"} :
      /\ k \in DOMAIN Entries(strct.val.AdditionalProperties)
      /\ strct.val.AdditionalProperties.val[k] = unmarshalAny(rawOf(call.data.val, k))

WrittenOver(f, v, old, new) ==
  IF v.kind = "null"
  THEN new = IF f.type \in {"int", "float64", "string", "bool"} THEN old ELSE GNil
  ELSE CASE f.type = "int" -> new = GInt(v.val)
         [] f.type = "float64" -> new = GFloat(v.val)
         [] f.type = "string" -> new = GStr(unquote(v.val))
         [] f.type = "bool" -> new = GBool(v.val)
         [] f.type = "ptr" ->
              new = UnmarshalJSON(f.elem, IF old = GNil THEN Zero(f.elem) ELSE old, v,
                                  [first |-> "", rev |-> FALSE]).inst
         [] f.type \in {"strmap", "ptrmap"} ->
              /\ DOMAIN new.val = DOMAIN Entries(old) \cup KeysOf(v)
              /\ \A k \in DOMAIN Entries(old) \ KeysOf(v) : new.val[k] = old.val[k]
              /\ \A k \in KeysOf(v) :
                   new.val[k] = Alone(typ, JObj(<< <<f.key, JObj(<< <<k, rawOf(v.val, k)>> >>)>> >>)).val[f.name].val[k]
         [] OTHER -> new.kind = "slice" /\ Len(new.val) = Len(v.val)

NullRequired(T, raw) ==
  {k \in Required(T) \cap KeysOf(raw) : rawOf(raw.val, k) = JNull}

\* the required keys of T that the object raw holds with the zero value of
\* their field: 0, false, the empty string, the empty array
ZeroRequired(T, raw) ==
  {k \in Required(T) \cap KeysOf(raw) :
     rawOf(raw.val, k) \in {JNum(0), JBool(FALSE), JStr(""), JArr(<<>>)}}

\* C28: an object that is valid but for required keys that hold null
\* decodes with no error: a required key that holds the zero value of its
\* field (false, 0, the empty string, the empty array) is received and the
\* field holds that value, and a required key that holds null is received
\* and leaves a pointer or slice nil and any other field as it was.
C28_PresenceNotValue ==
  ( /\ call.op = "decode"
    /\ call.data.kind = "obj"
    /\ Shaped(typ,
              JObj(SelectSeq(call.data.val,
                             LAMBDA p : p[1] \notin NullRequired(typ, call.data))),
              NullRequired(typ, call.data)) ) =>
    /\ err = NoErr
    /\ \A i \in 1..Len(Struct(typ)) :
         /\ Struct(typ)[i].key \in ZeroRequired(typ, call.data) =>
              strct.val[Struct(typ)[i].name] =
                IF Struct(typ)[i].type = "ptrslice" THEN GSlice(<<>>)
                ELSE ZeroOf(Struct(typ)[i].type)
         /\ Struct(typ)[i].key \in NullRequired(typ, call.data) =>
              strct.val[Struct(typ)[i].name] =
                IF Struct(typ)[i].type \in {"ptr", "ptrslice"} THEN GNil
                ELSE before.val[Struct(typ)[i].name]

\* a Tool whose "driver" is null has been decoded: no error, Driver nil
C28_Witness ==
  /\ typ = "Tool"
  /\ call.op = "decode"
  /\ call.data.kind = "obj"
  /\ NullRequired(typ, call.data) = {"driver"}
  /\ err = NoErr
  /\ strct.val.Driver = GNil

\* the required keys of T that the object raw lacks
MissingRequired(T, raw) == Required(T) \ KeysOf(raw)

\* C29: when an object that is valid otherwise lacks two or more required
\* keys, the error is the required-field error of the one declared first
\* (Edge: id, then sourceNodeId, then targetNodeId; SARIF: runs, then
\* version; ArtifactChange: artifactLocation, then replacements).
C29_FirstMissingNamed ==
  ( /\ call.op = "decode"
    /\ call.data.kind = "obj"
    /\ Cardinality(MissingRequired(typ, call.data)) >= 2
    /\ Shaped(typ, call.data, MissingRequired(typ, call.data)) ) =>
    /\ err.kind = "missing"
    /\ \A i \in 1..Len(Struct(typ)) :
         ( /\ Struct(typ)[i].key \in MissingRequired(typ, call.data)
           /\ \A j \in 1..(i - 1) :
                Struct(typ)[j].key \notin MissingRequired(typ, call.data) )
           => err.name = Struct(typ)[i].key
    /\ typ = "SARIF" => err.name = "runs"
    /\ typ = "ArtifactChange" => err.name = "artifactLocation"
    /\ typ = "Edge" =>
         err.name = IF "id" \notin KeysOf(call.data) THEN "id" ELSE "sourceNodeId"

\* an Edge that holds "id" only has been decoded and rejected for
\* sourceNodeId
C29_Witness ==
  /\ typ = "Edge"
  /\ call.op = "decode"
  /\ call.data.kind = "obj"
  /\ KeysOf(call.data) = {"id"}
  /\ MissingRequired(typ, call.data) = {"sourceNodeId", "targetNodeId"}
  /\ err = Err("missing", "sourceNodeId")

\* C30: a PropertyBag that a decode has filled holds no key "tags" in its
\* AdditionalProperties, and the text of an encoded PropertyBag, whether it
\* was decoded or built by assignment, holds no key twice.
C30_TagsDisjoint ==
  typ = "PropertyBag" =>
    /\ ( /\ call.op = "decode"
         /\ err = NoErr
         /\ "tags" \notin DOMAIN Entries(before.val.AdditionalProperties) )
         => "tags" \notin DOMAIN Entries(strct.val.AdditionalProperties)
    /\ (call.op = "encode" /\ err = NoErr) =>
         \A i, j \in 1..Len(out.val) : out.val[i][1] = out.val[j][1] => i = j

====
